---- MODULE Spec2Model ----
(***************************************************************************)
(* SkoolKit: the skool-to-binary writer (skoolkit/skool2bin.py, BinWriter) *)
(* and the snapshot classifier (skoolkit/snaskool.py, generate_ctls).      *)
(*                                                                         *)
(* A skool file is read line by line: each step of the BinWriter part      *)
(* consumes one line (an '@' directive, an instruction line, or the blank  *)
(* line that ends an entry), then the recorded instructions are poked one  *)
(* by one and the binary is written.                                       *)
(***************************************************************************)
EXTENDS Integers, Sequences, FiniteSets, TLC

\* ------------------------------------------------------------------ bounds
\* Number of lines of the skool file that are read.
MaxLines == 3
\* Number of bytes of the snapshot that may differ from zero.
MemSize == 4
\* Number of bytes of the snapshot that may differ from zero when the
\* classifier is given a longer range, and the number of addresses that the
\* code map lists then.
WideSize == 6
MaxExecuted == 2
\* Number of lines of a code map log after its first line.
MaxLogLines == 2
\* Number of @label directives given to the final disassembly.
MaxLabels == 1
\* Number of instructions of a block, and of characters of its comment.
MaxRowspan == 3
MaxCommentLen == 4
\* Number of bytes of the snapshot that may differ from zero when the code
\* that the classifier is given branches.
BranchSize == 5
\* Longest run of characters given to the text-run test, and where it lies.
MaxRun == 6
RunBase == 40000
\* Number of bytes of a range that is searched for text.
TextSize == 15
\* Number of bytes of a block that an entry is made of.
EntrySize == 4

\* ------------------------------------------------------- program constants
\* len([0] * 65536), skool2bin.py:66
SNAPSHOT_SIZE == 65536
\* default of the 'end' argument of BinWriter.__init__, skool2bin.py:43
DEFAULT_END == 65537
\* default of the 'start' argument of BinWriter.__init__, skool2bin.py:43
DEFAULT_START == -1

\* Python's None where an address (a non-negative integer) may stand.
None == -1
\* get_int_param raising ValueError.
ValueError == -2

VARIABLES
    pc,             \* position: "parse", "relocate", "write", "done", "error"
    line_no,        \* number of lines read so far
    in_block,       \* the block being read has at least one line
    req,            \* the arguments asm_mode, fix_mode given to __init__
    asm_mode, fix_mode, start, end, data_opt,
    weights, fields,
    snapshot,       \* [len, mem]: a list of len bytes, 0 where mem is undefined
    base_address, end_address,
    subs, keep, nowarn, data,
    entry_ctl, entries, remote_entries, instructions, address_map,
    address, removed,   \* locals of _parse_skool
    to_poke,        \* instructions _relocate has still to poke, in order
    output,         \* bytes given to f.write
    error,          \* the SkoolParsingError raised, or NoError
    declared,       \* sub/fix directives read since the last instruction line
    directives_read,\* number of directive lines read so far
    line,           \* the line read last (the loop variable of _parse_skool)
    last,           \* what the last instruction line did
    pokes,          \* every (address, length) given to _poke
    \* ---- generate_ctls (snaskool.py), which shares snapshot, start and end
    cpc,            \* position in generate_ctls
    code_map,       \* [file, addresses]: whether a code map is given, and the
                    \* addresses it lists
    ctls,           \* the ctl map: address -> kind
    disassembly,    \* [built, entries, entry_map]
    phase,          \* the classifier phase completed by the last step, or 0
    raised,         \* the exception generate_ctls ended with, or "none"
    \* ---- what lies around the two programs
    results,        \* the ctl maps that earlier calls of generate_ctls returned
    classified,     \* the ctl map as it was at line 529, before generate_ctls
                    \* joined the adjacent data and zero blocks
    map_file,       \* [size, data, lines]: the code map file to read, or NoFile
    executed,       \* the addresses _get_code_blocks collected, in its order
    ctl_parser,     \* [ctls, code, labels]: the ctl parser of the final disassembly
    referrers,      \* the referrers of each instruction of the final disassembly
    block_comment,  \* [rowspan, comment, width]: a block and the width to format for
    comment_lines,  \* the lines _format_block_comment returned
    argument,       \* what a function of snaskool.py is called with on its own
    returned        \* what that call returned

bwvars == <<pc, line_no, in_block, req, asm_mode, fix_mode, start, end, data_opt,
            weights, fields, snapshot, base_address, end_address, subs, keep,
            nowarn, data, entry_ctl, entries, remote_entries, instructions,
            address_map, address, removed, to_poke, output, error, declared,
            directives_read, line, last, pokes>>

ctlvars == <<cpc, code_map, ctls, disassembly, phase, raised>>

readvars == <<map_file, executed>>
finalvars == <<ctl_parser, referrers>>
commentvars == <<block_comment, comment_lines>>
callvars == <<argument, returned>>
othervars == <<results, classified, readvars, finalvars, commentvars, callvars>>

vars == <<bwvars, ctlvars, othervars>>

\* ------------------------------------------------------------- utilities
Max(S) == CHOOSE x \in S : \A y \in S : y <= x
Min(S) == CHOOSE x \in S : \A y \in S : x <= y
MaxOf(a, b) == IF a >= b THEN a ELSE b
MinOf(a, b) == IF a <= b THEN a ELSE b
Bool2Int(b) == IF b THEN 1 ELSE 0

RECURSIVE Concat(_)
Concat(ss) == IF ss = <<>> THEN <<>> ELSE Head(ss) \o Concat(Tail(ss))

DigitChars == <<"0", "1", "2", "3", "4", "5", "6", "7", "8", "9">>

\* str(n) for n >= 0: the decimal digits of n.
RECURSIVE Str(_)
Str(n) == IF n < 10 THEN <<DigitChars[n + 1]>>
          ELSE Append(Str(n \div 10), DigitChars[(n % 10) + 1])

DigitValue(c) == CHOOSE d \in 0..9 : DigitChars[d + 1] = c
IsDigit(c) == \E d \in 0..9 : DigitChars[d + 1] = c

RECURSIVE DecimalValue(_)
DecimalValue(s) == IF s = <<>> THEN 0
                   ELSE 10 * DecimalValue(SubSeq(s, 1, Len(s) - 1)) + DigitValue(s[Len(s)])

\* s.strip() for a field of spaces and other characters: the characters left
\* once the spaces at both ends are dropped (the fields used have no inner space).
Strip(s) == SelectSeq(s, LAMBDA c : c # " ")

\* get_int_param(s): the value of a decimal string, ValueError otherwise.
get_int_param(s) ==
    IF s # <<>> /\ \A i \in 1..Len(s) : IsDigit(s[i]) THEN DecimalValue(s) ELSE ValueError

\* ------------------------------------------------------------ the snapshot
\* snapshot[i]
Peek(snap, i) == IF i \in DOMAIN snap.mem THEN snap.mem[i] ELSE 0

\* snapshot[b:e] for b, e >= 0
Slice(snap, b, e) ==
    LET lo == MinOf(b, snap.len)
        hi == MinOf(e, snap.len)
    IN  IF hi <= lo THEN <<>> ELSE [i \in 1..(hi - lo) |-> Peek(snap, lo + i - 1)]

\* snapshot[a:a + len(bytes)] = bytes, a >= 0: Python clips the slice to the
\* list, so that bytes which do not fit before the end of the list extend it.
SliceAssign(snap, a, bytes) ==
    LET n  == Len(bytes)
        lo == MinOf(a, snap.len)
        hi == MaxOf(lo, MinOf(a + n, snap.len))
        newlen == lo + n + (snap.len - hi)
        keepidx == {i \in DOMAIN snap.mem : i < lo \/ i >= hi}
    IN  [len |-> newlen,
         mem |-> [i \in {IF k < lo THEN k ELSE k + n - (hi - lo) : k \in keepidx}
                        \cup (lo .. lo + n - 1) |->
                    IF i >= lo /\ i < lo + n THEN bytes[i - lo + 1]
                    ELSE IF i < lo THEN snap.mem[i]
                    ELSE snap.mem[i - n + (hi - lo)]]]

EmptySnapshot == [len |-> SNAPSHOT_SIZE, mem |-> <<>>]

\* ------------------------------------------------- operations and assembler
\* An operation: its text up to the address operand, and the address operand
\* (None when it has none).  The empty operation is Op("", None).
Op(m, t) == [m |-> m, t |-> t]
NoOp == Op("", None)
NOP == Op("NOP", None)
LD_A_5 == Op("LD A,5", None)
JR_65535 == Op("JR ", 65535)
XYZ == Op("XYZ", None)

\* assembler.assemble(operation, address): the bytes of the operation, none if
\* it cannot be assembled.
assemble(operation, addr) ==
    IF operation = NOP THEN <<0>>
    ELSE IF operation = LD_A_5 THEN <<62, 5>>
    ELSE IF operation.m = "JR " /\ operation.t # None
         THEN LET d == operation.t - addr - 2
              IN  IF d >= -128 /\ d <= 127 THEN <<24, d % 256>> ELSE <<>>
    ELSE <<>>

\* assembler.get_size(operation, address)
assembler_get_size(operation, addr) == Len(assemble(operation, addr))

\* operation.upper().startswith(('DJNZ ', 'JR '))
IsRelativeJump(operation) == operation.m \in {"DJNZ ", "JR "}

\* ------------------------------------------------------ directive grammar
SubKeywords == {"isub", "ssub", "rsub", "ofix", "bfix", "rfix"}

\* The value of a sub/fix directive: the prefix characters and the operation.
Value(prefix, op) == [prefix |-> prefix, op |-> op]

\* parse_asm_sub_fix_directive(v)[::2]: the flags and the operation.
parse_asm_sub_fix_directive(v) ==
    [overwrite |-> "|" \in v.prefix,
     prepend   |-> ">" \in v.prefix,
     append    |-> "+" \in v.prefix,
     op        |-> v.op]

\* parse_address_range("a-b")
parse_address_range(lo, hi) == lo .. hi

\* The address field line[1:6] of an instruction line.
Field(n) == Str(n)
BlankField == <<" ", " ", " ", " ", " ">>
BadField == <<"6", "5", "5", "3", "X">>

\* ------------------------------------------------------------ __init__
\* A slip in line 47: asm_mode 3 leaves fix_mode as requested.
EffectiveModes_nofloor(a, f) ==
    IF f > 2 THEN [asm |-> 3, fix |-> f] ELSE [asm |-> a, fix |-> f]

\* Lines 44-47: the effective modes.
EffectiveModes(a, f) ==
    IF f > 2 THEN [asm |-> 3, fix |-> f]
    ELSE IF a > 2 THEN [asm |-> a, fix |-> MaxOf(f, 1)]
    ELSE [asm |-> a, fix |-> f]

\* Lines 54-61: the weight of each directive keyword.
Weights(a, f) ==
    [k \in SubKeywords |->
        IF k = "isub" THEN Bool2Int(a > 0)
        ELSE IF k = "ssub" THEN 2 * Bool2Int(a > 1)
        ELSE IF k = "rsub" THEN 3 * Bool2Int(a > 2)
        ELSE IF k = "ofix" THEN 4 * Bool2Int(f > 0)
        ELSE IF k = "bfix" THEN 5 * Bool2Int(f > 1)
        ELSE 6 * Bool2Int(f > 2)]

\* defaultdict(list, {0: []})
NoSubs == [w \in {0} |-> <<>>]

\* generate_ctls not called: no code map, no Disassembly constructed.
NoCodeMap == [file |-> FALSE, addresses |-> {}]
NoDisassembly == [built |-> FALSE, entries |-> <<>>, entry_map |-> <<>>]

NoError == [kind |-> "none"]
NoLast == [kind |-> "none"]
NoLine == [kind |-> "none"]

\* The modes the writer is constructed with: (asm_mode, fix_mode).
AllModes == (0..3) \X (0..3)

\* The options the writer is constructed with: (start, end, data).
DefaultOptions == {<<DEFAULT_START, DEFAULT_END, FALSE>>}
AllOptions == {<<DEFAULT_START, DEFAULT_END, FALSE>>,
               <<65535, 65536, FALSE>>,
               <<DEFAULT_START, 65536, TRUE>>,
               <<DEFAULT_START, DEFAULT_END, TRUE>>}

\* No code map file.
NoFile == [size |-> 0, data |-> <<>>, lines |-> <<>>]

\* No ctl parser: ctls maps the start of each entry to its ctl (the largest
\* key ends the last entry), code holds the entries whose sub-block is a 'C'
\* sub-block, and labels maps addresses to the labels that @label gives them.
NoParser == [ctls |-> <<>>, code |-> {}, labels |-> <<>>]

\* No block comment to format.
NoComment == [rowspan |-> 0, comment |-> <<>>, width |-> 0]

\* No function is called on its own.
NoCall == [name |-> "none"]

\* Nothing has run before the program starts.
ReaderIdle == map_file = NoFile /\ executed = <<>>
FinalIdle == ctl_parser = NoParser /\ referrers = <<>>
CommentIdle == block_comment = NoComment /\ comment_lines = <<>>
CallIdle == argument = NoCall /\ returned = NoCall
OthersIdle ==
    /\ results = <<>>
    /\ classified = <<>>
    /\ ReaderIdle
    /\ FinalIdle
    /\ CommentIdle
    /\ CallIdle

\* The state after lines 44-81 of __init__, for the arguments asm_mode = a,
\* fix_mode = f and (start, end, data) = o.
BinWriterInit(modes, options) ==
    \E m \in modes, o \in options : LET a == m[1] f == m[2] IN
        /\ req = [asm_mode |-> a, fix_mode |-> f]
        /\ asm_mode = EffectiveModes(a, f).asm
        /\ fix_mode = EffectiveModes(a, f).fix
        /\ start = o[1]
        /\ end = o[2]
        /\ data_opt = o[3]
        /\ weights = Weights(EffectiveModes(a, f).asm, EffectiveModes(a, f).fix)
        /\ fields = [asm |-> EffectiveModes(a, f).asm, fix |-> EffectiveModes(a, f).fix]
        /\ snapshot = EmptySnapshot
        /\ base_address = EmptySnapshot.len
        /\ end_address = 0
        /\ subs = NoSubs
        /\ keep = "None"
        /\ nowarn = FALSE
        /\ data = <<>>
        /\ entry_ctl = "None"
        /\ entries = <<>>
        /\ remote_entries = <<>>
        /\ instructions = <<>>
        /\ address_map = <<>>
        /\ address = None
        /\ removed = {}
        /\ to_poke = <<>>
        /\ output = <<>>
        /\ error = NoError
        /\ declared = <<>>
        /\ directives_read = 0
        /\ line = NoLine
        /\ last = NoLast
        /\ pokes = {}
        /\ pc = "parse"
        /\ line_no = 0
        /\ in_block = FALSE
        /\ cpc = "idle"
        /\ code_map = NoCodeMap
        /\ ctls = <<>>
        /\ disassembly = NoDisassembly
        /\ phase = 0
        /\ raised = "none"
        /\ OthersIdle

\* ------------------------------------------------------------ _get_size
\* Instruction(skool_address, address, operation, keep, nowarn, data, marker)
Instruction(skool_address, addr, operation, k, nw, d, marker) ==
    [address |-> skool_address, real_address |-> addr, keep |-> k, nowarn |-> nw,
     original |-> operation, operation |-> operation, data |-> d, marker |-> marker]

\* A slip in lines 154-157: the pending hints are not cleared.
GetSize_hints(st, t) ==
    LET size == IF IsRelativeJump(t.operation) THEN 2
                ELSE assembler_get_size(t.operation, st.address)
        marker == IF t.overwrite THEN "|" ELSE t.marker
    IN  IF size # 0
        THEN [st EXCEPT
                !.removed = IF t.overwrite
                            THEN @ \cup (st.address + t.offset .. st.address + t.offset + size - 1)
                            ELSE @,
                !.instructions =
                    IF start <= st.address /\ st.address < end
                    THEN Append(@, Instruction(t.skool_address, st.address, t.operation,
                                               st.keep, st.nowarn, st.data, marker))
                    ELSE @,
                !.sized = Append(@, [marker |-> marker, operation |-> t.operation,
                                     address |-> st.address, size |-> size]),
                !.address = @ + size]
        ELSE [st EXCEPT !.error = [kind |-> "Failed to assemble", address |-> st.address,
                                   operation |-> t.operation]]

\* A slip in line 150: the range starts at the real address, without the offset.
GetSize_nooffset(st, t) ==
    LET size == IF IsRelativeJump(t.operation) THEN 2
                ELSE assembler_get_size(t.operation, st.address)
        marker == IF t.overwrite THEN "|" ELSE t.marker
    IN  IF size # 0
        THEN [st EXCEPT
                !.removed = IF t.overwrite
                            THEN @ \cup (st.address .. st.address + size - 1)
                            ELSE @,
                !.instructions =
                    IF start <= st.address /\ st.address < end
                    THEN Append(@, Instruction(t.skool_address, st.address, t.operation,
                                               st.keep, st.nowarn, st.data, marker))
                    ELSE @,
                !.keep = "None",
                !.nowarn = FALSE,
                !.data = <<>>,
                !.sized = Append(@, [marker |-> marker, operation |-> t.operation,
                                     address |-> st.address, size |-> size]),
                !.address = @ + size]
        ELSE [st EXCEPT !.error = [kind |-> "Failed to assemble", address |-> st.address,
                                   operation |-> t.operation]]

\* A slip in the callers of _get_size: the size is not added to the address.
GetSize_still(st, t) ==
    LET size == IF IsRelativeJump(t.operation) THEN 2
                ELSE assembler_get_size(t.operation, st.address)
        marker == IF t.overwrite THEN "|" ELSE t.marker
    IN  IF size # 0
        THEN [st EXCEPT
                !.removed = IF t.overwrite
                            THEN @ \cup (st.address + t.offset .. st.address + t.offset + size - 1)
                            ELSE @,
                !.instructions =
                    IF start <= st.address /\ st.address < end
                    THEN Append(@, Instruction(t.skool_address, st.address, t.operation,
                                               st.keep, st.nowarn, st.data, marker))
                    ELSE @,
                !.keep = "None",
                !.nowarn = FALSE,
                !.data = <<>>,
                !.sized = Append(@, [marker |-> marker, operation |-> t.operation,
                                     address |-> st.address, size |-> size]),
                !.address = @]
        ELSE [st EXCEPT !.error = [kind |-> "Failed to assemble", address |-> st.address,
                                   operation |-> t.operation]]

\* One call of _get_size, and the 'address += size' of its caller.  st holds
\* what the call reads and changes; t is the operation with the arguments of
\* the call.  st.sized lists every operation that was given a size.
GetSize(st, t) ==
    LET size == IF IsRelativeJump(t.operation) THEN 2
                ELSE assembler_get_size(t.operation, st.address)
        marker == IF t.overwrite THEN "|" ELSE t.marker
    IN  IF size # 0
        THEN [st EXCEPT
                !.removed = IF t.overwrite
                            THEN @ \cup (st.address + t.offset .. st.address + t.offset + size - 1)
                            ELSE @,
                !.instructions =
                    IF start <= st.address /\ st.address < end
                    THEN Append(@, Instruction(t.skool_address, st.address, t.operation,
                                               st.keep, st.nowarn, st.data, marker))
                    ELSE @,
                !.keep = "None",
                !.nowarn = FALSE,
                !.data = <<>>,
                !.sized = Append(@, [marker |-> marker, operation |-> t.operation,
                                     address |-> st.address, size |-> size]),
                !.address = @ + size]
        ELSE [st EXCEPT !.error = [kind |-> "Failed to assemble", address |-> st.address,
                                   operation |-> t.operation]]

\* The calls of _get_size for a list of operations, up to the first that raises.
RECURSIVE GetSizes(_, _)
GetSizes(st, ts) ==
    IF ts = <<>> \/ st.error # NoError THEN st
    ELSE GetSizes(GetSize(st, Head(ts)), Tail(ts))

Task(operation, marker, overwrite, offset, skool_address) ==
    [operation |-> operation, marker |-> marker, overwrite |-> overwrite,
     offset |-> offset, skool_address |-> skool_address]

\* -------------------------------------------------------- _parse_instruction
\* A slip in line 124: address_map[k] = v, the last line wins.
SetAlways(m, k, v) == [x \in DOMAIN m \cup {k} |-> IF x = k THEN v ELSE m[x]]

\* A slip in line 124: the declared address is stored, not the running one.
SetDefault_declared(m, k, v) ==
    IF k \in DOMAIN m THEN m
    ELSE [x \in DOMAIN m \cup {k} |-> IF x = k THEN (IF k = None THEN v ELSE Str(k)) ELSE m[x]]

\* address_map.setdefault(k, v)
SetDefault(m, k, v) ==
    IF k \in DOMAIN m THEN m ELSE [x \in DOMAIN m \cup {k} |-> IF x = k THEN v ELSE m[x]]

\* A slip in line 108: every ValueError is fatal.
InvalidAddress_always(parsed_address, addr, field) == parsed_address = ValueError

\* Lines 107-109: get_int_param raised ValueError and the line is rejected.
InvalidAddress(parsed_address, addr, field) ==
    parsed_address = ValueError /\ (addr = None \/ Strip(field) # <<>>)

\* A slip in line 114: the lowest weight declared wins.
Subbed_min(s) == IF DOMAIN s = {0} THEN 0 ELSE Min(DOMAIN s \ {0})

\* Line 114: subbed = max(self.subs)
Subbed(s) == Max(DOMAIN s)

\* A slip in line 136: the removed set is not consulted.
EmitMain_always(operation, skool_address, rem) == operation # NoOp

\* Line 136: the original or replacement operation is given a size.
EmitMain(operation, skool_address, rem) == operation # NoOp /\ skool_address \notin rem

\* A slip in lines 110-111: a line with an address is placed where it declares.
ParseInstructionResult_declared(ln) ==
    LET parsed_address == get_int_param(ln.field)
        invalid == InvalidAddress(parsed_address, address, ln.field)
        skool_address == IF parsed_address = ValueError THEN None ELSE parsed_address
        address1 == IF skool_address # None THEN skool_address ELSE address
        original_op == ln.op
        subbed == Subbed(subs)
        operations == IF subbed # 0 THEN subs[subbed] ELSE <<Value({}, original_op)>>
        parsed == [i \in 1..Len(operations) |-> parse_asm_sub_fix_directive(operations[i])]
        before_p == SelectSeq(parsed, LAMBDA i : i.prepend /\ i.op # NoOp)
        before == [i \in 1..Len(before_p) |-> Task(before_p[i].op, ">", FALSE, 0, None)]
        st0 == [address |-> address1, removed |-> removed, instructions |-> instructions,
                keep |-> keep, nowarn |-> nowarn, data |-> data, error |-> NoError,
                sized |-> <<>>]
        st1 == GetSizes(st0, before)
        after == SelectSeq(parsed, LAMBDA i : ~i.prepend)
        offset == IF skool_address = None THEN 0 ELSE skool_address - st1.address
        no_first == after = <<>> \/ after[1].append
        overwrite == IF no_first THEN FALSE ELSE after[1].overwrite
        operation == IF no_first THEN original_op
                     ELSE IF after[1].op = NoOp THEN original_op ELSE after[1].op
        rest_p == IF no_first THEN after ELSE Tail(after)
        emit_main == EmitMain(operation, skool_address, st1.removed)
        st2 == IF emit_main
               THEN GetSizes(st1, <<Task(operation, " ", overwrite, offset, skool_address)>>)
               ELSE st1
        rest_q == SelectSeq(rest_p, LAMBDA i : i.op # NoOp)
        rest == [i \in 1..Len(rest_q) |-> Task(rest_q[i].op, "+", rest_q[i].overwrite, offset, None)]
        st3 == GetSizes(st2, rest)
    IN  [invalid |-> invalid,
         skool_address |-> skool_address,
         operations |-> operations,
         main_address |-> st1.address,
         emit_main |-> emit_main,
         mapped |-> st1.error = NoError,
         st |-> st3]

\* What _parse_instruction does with an instruction line, given the state it
\* is called in.  ln = [ctl, field, op].
ParseInstructionResult(ln) ==
    LET parsed_address == get_int_param(ln.field)
        invalid == InvalidAddress(parsed_address, address, ln.field)
        skool_address == IF parsed_address = ValueError THEN None ELSE parsed_address
        address1 == IF address = None THEN skool_address ELSE address
        original_op == ln.op
        subbed == Subbed(subs)
        operations == IF subbed # 0 THEN subs[subbed] ELSE <<Value({}, original_op)>>
        parsed == [i \in 1..Len(operations) |-> parse_asm_sub_fix_directive(operations[i])]
        before_p == SelectSeq(parsed, LAMBDA i : i.prepend /\ i.op # NoOp)
        before == [i \in 1..Len(before_p) |-> Task(before_p[i].op, ">", FALSE, 0, None)]
        st0 == [address |-> address1, removed |-> removed, instructions |-> instructions,
                keep |-> keep, nowarn |-> nowarn, data |-> data, error |-> NoError,
                sized |-> <<>>]
        st1 == GetSizes(st0, before)
        after == SelectSeq(parsed, LAMBDA i : ~i.prepend)
        offset == IF skool_address = None THEN 0 ELSE skool_address - st1.address
        no_first == after = <<>> \/ after[1].append
        overwrite == IF no_first THEN FALSE ELSE after[1].overwrite
        operation == IF no_first THEN original_op
                     ELSE IF after[1].op = NoOp THEN original_op ELSE after[1].op
        rest_p == IF no_first THEN after ELSE Tail(after)
        emit_main == EmitMain(operation, skool_address, st1.removed)
        st2 == IF emit_main
               THEN GetSizes(st1, <<Task(operation, " ", overwrite, offset, skool_address)>>)
               ELSE st1
        rest_q == SelectSeq(rest_p, LAMBDA i : i.op # NoOp)
        rest == [i \in 1..Len(rest_q) |-> Task(rest_q[i].op, "+", rest_q[i].overwrite, offset, None)]
        st3 == GetSizes(st2, rest)
    IN  [invalid |-> invalid,
         skool_address |-> skool_address,
         operations |-> operations,
         main_address |-> st1.address,
         emit_main |-> emit_main,
         mapped |-> st1.error = NoError,
         st |-> st3]

InstructionLines ==
    {[kind |-> "instruction", ctl |-> "c", field |-> Field(65534), op |-> NOP],
     [kind |-> "instruction", ctl |-> "c", field |-> Field(65534), op |-> LD_A_5],
     [kind |-> "instruction", ctl |-> "c", field |-> Field(65535), op |-> NOP],
     [kind |-> "instruction", ctl |-> "c", field |-> Field(65535), op |-> LD_A_5],
     [kind |-> "instruction", ctl |-> "c", field |-> Field(65535), op |-> JR_65535],
     [kind |-> "instruction", ctl |-> "c", field |-> Field(65534), op |-> XYZ],
     [kind |-> "instruction", ctl |-> " ", field |-> BlankField, op |-> NOP],
     [kind |-> "instruction", ctl |-> "c", field |-> BadField, op |-> NOP]}

\* A slip in line 119: the substitutions are kept for the next line.
ParseInstruction_kept ==
    /\ pc = "parse"
    /\ line_no < MaxLines
    /\ \E ln \in InstructionLines : \E r \in {ParseInstructionResult(ln)} :
        LET ok == ~r.invalid /\ r.st.error = NoError IN
        /\ line' = ln
        /\ line_no' = line_no + 1
        /\ in_block' = TRUE
        /\ entry_ctl' = IF entry_ctl = "None" THEN ln.ctl ELSE entry_ctl
        /\ pc' = IF ok THEN "parse" ELSE "error"
        /\ error' = IF r.invalid
                    THEN [kind |-> "Invalid address", field |-> ln.field, line |-> ln]
                    ELSE r.st.error
        /\ subs' = subs
        /\ declared' = IF r.invalid THEN declared ELSE <<>>
        /\ address_map' = IF ~r.invalid /\ r.mapped
                          THEN SetDefault(address_map, r.skool_address, Str(r.main_address))
                          ELSE address_map
        /\ removed' = IF r.invalid THEN removed ELSE r.st.removed
        /\ instructions' = IF r.invalid THEN instructions ELSE r.st.instructions
        /\ keep' = IF r.invalid THEN keep ELSE r.st.keep
        /\ nowarn' = IF r.invalid THEN nowarn ELSE r.st.nowarn
        /\ data' = IF r.invalid THEN data ELSE r.st.data
        /\ address' = IF ok THEN r.st.address ELSE address
        /\ last' = [kind |-> IF r.invalid THEN "invalid" ELSE "instruction",
                    line |-> ln,
                    skool_address |-> r.skool_address,
                    declared |-> declared,
                    operations |-> IF r.invalid THEN <<>> ELSE r.operations,
                    removed_before |-> removed,
                    address_before |-> address,
                    first |-> Len(instructions),
                    main_address |-> IF r.invalid THEN None ELSE r.main_address,
                    emit_main |-> ~r.invalid /\ r.emit_main,
                    sized |-> IF r.invalid THEN <<>> ELSE r.st.sized,
                    failed |-> ~r.invalid /\ r.st.error # NoError]
    /\ UNCHANGED <<req, asm_mode, fix_mode, start, end, data_opt, weights, fields,
                   snapshot, base_address, end_address, entries, remote_entries,
                   to_poke, output, pokes, directives_read, ctlvars, othervars>>

\* An instruction line is read (_parse_skool, lines 95-96).
ParseInstruction ==
    /\ pc = "parse"
    /\ line_no < MaxLines
    /\ \E ln \in InstructionLines : \E r \in {ParseInstructionResult(ln)} :
        LET ok == ~r.invalid /\ r.st.error = NoError IN
        /\ line' = ln
        /\ line_no' = line_no + 1
        /\ in_block' = TRUE
        /\ entry_ctl' = IF entry_ctl = "None" THEN ln.ctl ELSE entry_ctl
        /\ pc' = IF ok THEN "parse" ELSE "error"
        /\ error' = IF r.invalid
                    THEN [kind |-> "Invalid address", field |-> ln.field, line |-> ln]
                    ELSE r.st.error
        /\ subs' = IF r.invalid THEN subs ELSE NoSubs
        /\ declared' = IF r.invalid THEN declared ELSE <<>>
        /\ address_map' = IF ~r.invalid /\ r.mapped
                          THEN SetDefault(address_map, r.skool_address, Str(r.main_address))
                          ELSE address_map
        /\ removed' = IF r.invalid THEN removed ELSE r.st.removed
        /\ instructions' = IF r.invalid THEN instructions ELSE r.st.instructions
        /\ keep' = IF r.invalid THEN keep ELSE r.st.keep
        /\ nowarn' = IF r.invalid THEN nowarn ELSE r.st.nowarn
        /\ data' = IF r.invalid THEN data ELSE r.st.data
        /\ address' = IF ok THEN r.st.address ELSE address
        /\ last' = [kind |-> IF r.invalid THEN "invalid" ELSE "instruction",
                    line |-> ln,
                    skool_address |-> r.skool_address,
                    declared |-> declared,
                    operations |-> IF r.invalid THEN <<>> ELSE r.operations,
                    removed_before |-> removed,
                    address_before |-> address,
                    first |-> Len(instructions),
                    main_address |-> IF r.invalid THEN None ELSE r.main_address,
                    emit_main |-> ~r.invalid /\ r.emit_main,
                    sized |-> IF r.invalid THEN <<>> ELSE r.st.sized,
                    failed |-> ~r.invalid /\ r.st.error # NoError]
    /\ UNCHANGED <<req, asm_mode, fix_mode, start, end, data_opt, weights, fields,
                   snapshot, base_address, end_address, entries, remote_entries,
                   to_poke, output, pokes, directives_read, ctlvars, othervars>>

\* ------------------------------------------------------ _parse_asm_directive
V_LD == Value({}, LD_A_5)            \* @xsub=LD A,5
V_PRE == Value({">"}, NOP)           \* @xsub=>NOP
V_APP == Value({"+"}, NOP)           \* @xsub=+NOP
V_OVER == Value({"|"}, LD_A_5)       \* @xsub=|LD A,5

SubDirective(kw, v) == [kind |-> "sub", kw |-> kw, value |-> v]
RemoveDirective(kw, lo, hi) == [kind |-> "remove", kw |-> kw, lo |-> lo, hi |-> hi]
OrgDirective(org) == [kind |-> "org", org |-> org]
IfDirective(field, least, then) == [kind |-> "if", field |-> field, least |-> least, then |-> then]
Nothing == [kind |-> "nothing"]

\* The directive lines the skool file is made of.
SubDirectives ==
    {SubDirective(kw, V_LD) : kw \in SubKeywords}
    \cup {SubDirective(kw, v) : kw \in {"isub", "bfix"}, v \in {V_APP, V_PRE, V_OVER}}
RemoveDirectives == {RemoveDirective(kw, 65535, 65535) : kw \in {"isub", "rfix"}}
OrgDirectives == {OrgDirective(None), OrgDirective(65534), OrgDirective(ValueError)}
IfDirectives ==
    {IfDirective("asm", 3, SubDirective("isub", V_LD)),
     IfDirective("fix", 1, RemoveDirective("isub", 65534, 65534)),
     [kind |-> "if", field |-> "malformed", least |-> 0, then |-> Nothing]}
OtherDirectives ==
    {[kind |-> "keep"], [kind |-> "nowarn"],
     [kind |-> "data", directive |-> [address |-> None, bytes |-> <<7>>]],
     [kind |-> "remote", addrs |-> <<65535>>]}
Directives == SubDirectives \cup RemoveDirectives \cup OrgDirectives
              \cup IfDirectives \cup OtherDirectives

\* parse_if(fields, directive, 2)[1]: the directive chosen by @if({field}>=least).
\* A MacroParsingError is caught and the line dropped.
parse_if(d) ==
    IF d.field \notin DOMAIN fields THEN Nothing
    ELSE IF fields[d.field] >= d.least THEN d.then
    ELSE Nothing

\* subs[w].append(v) on a defaultdict(list)
SubsAppend(m, w, v) ==
    [x \in DOMAIN m \cup {w} |-> IF x = w THEN Append(IF w \in DOMAIN m THEN m[w] ELSE <<>>, v)
                                  ELSE m[x]]

\* _parse_asm_directive(address, line, removed), called for a directive line
\* (_parse_skool, lines 93-94).
\* A slip in line 165: the range is removed whatever the weight.
RemoveRange_always(rem, d) == rem \cup parse_address_range(d.lo, d.hi)

\* Lines 164-166: an address range is removed if the keyword is enabled.
RemoveRange(rem, d) ==
    IF weights[d.kw] # 0 THEN rem \cup parse_address_range(d.lo, d.hi) ELSE rem

\* The directive an '@' line stands for: the one @if chooses, or the line itself.
Resolve(ln) == IF ln.kind = "if" THEN parse_if(ln) ELSE ln

DirectiveStep(ln) ==
    LET d == Resolve(ln) IN
    /\ pc = "parse"
    /\ line_no < MaxLines
    /\ line' = ln
    /\ line_no' = line_no + 1
    /\ directives_read' = directives_read + 1
    /\ in_block' = TRUE
    /\ subs' = IF d.kind = "sub" THEN SubsAppend(subs, weights[d.kw], d.value) ELSE subs
    /\ declared' = IF d.kind = "sub" THEN Append(declared, [kw |-> d.kw, value |-> d.value])
                   ELSE declared
    /\ removed' = IF d.kind = "remove" THEN RemoveRange(removed, d) ELSE removed
    /\ address' = IF d.kind = "org" /\ d.org # ValueError THEN d.org ELSE address
    /\ error' = IF d.kind = "org" /\ d.org = ValueError
                THEN [kind |-> "Invalid org address"] ELSE error
    /\ pc' = IF d.kind = "org" /\ d.org = ValueError THEN "error" ELSE pc
    /\ keep' = IF d.kind = "keep" THEN "keep" ELSE keep
    /\ nowarn' = IF d.kind = "nowarn" THEN TRUE ELSE nowarn
    /\ data' = IF d.kind = "data" /\ data_opt THEN Append(data, d.directive) ELSE data
    /\ remote_entries' = IF d.kind = "remote"
                         THEN Append(remote_entries,
                                     [ctl |-> "None",
                                      instructions |-> [i \in 1..Len(d.addrs) |->
                                          Instruction(d.addrs[i], None, NoOp, "None", FALSE, <<>>, "")]])
                         ELSE remote_entries
    /\ UNCHANGED <<req, asm_mode, fix_mode, start, end, data_opt, weights, fields,
                   snapshot, base_address, end_address, entry_ctl, entries,
                   instructions, address_map, to_poke, output, last, pokes, ctlvars, othervars>>

\* A sub/fix directive line (possibly inside an @if) is read.
ParseSubFixDirective ==
    \E ln \in SubDirectives \cup RemoveDirectives \cup IfDirectives : DirectiveStep(ln)

\* An @org directive line is read.
ParseOrgDirective == \E ln \in OrgDirectives : DirectiveStep(ln)

\* A @keep, @nowarn, @defb or @remote directive line is read.
ParseOtherDirective == \E ln \in OtherDirectives : DirectiveStep(ln)

\* ------------------------------------------------------------ _parse_skool
Entry(ctl, instrs) == [ctl |-> ctl, instructions |-> instrs]

\* The blank line that ends an entry (lines 97-99); the next entry starts
\* with an empty removed set (line 91).
EndEntry ==
    /\ pc = "parse"
    /\ line_no < MaxLines
    /\ in_block
    /\ line_no' = line_no + 1
    /\ in_block' = FALSE
    /\ entries' = Append(entries, Entry(entry_ctl, instructions))
    /\ entry_ctl' = "None"
    /\ instructions' = <<>>
    /\ removed' = {}
    /\ UNCHANGED <<pc, req, asm_mode, fix_mode, start, end, data_opt, weights, fields,
                   snapshot, base_address, end_address, subs, keep, nowarn, data,
                   remote_entries, address_map, address, to_poke, output, error,
                   declared, directives_read, line, last, pokes, ctlvars, othervars>>

\* substitute_labels: the address operand of an operation is replaced by the
\* address it is mapped to, unless the instruction has a @keep.
substitute_labels(i) ==
    IF i.operation.t # None /\ i.operation.t \in DOMAIN address_map /\ i.keep = "None"
    THEN [i EXCEPT !.operation.t = DecimalValue(address_map[i.operation.t])]
    ELSE i

AllInstructions(es) == Concat([k \in 1..Len(es) |-> es[k].instructions])

\* The end of the file: the last entry is closed (lines 97-100) and _relocate
\* substitutes the labels (line 205).
EndOfFile ==
    /\ pc = "parse"
    /\ LET es == IF in_block THEN Append(entries, Entry(entry_ctl, instructions)) ELSE entries
           rs == [k \in 1..Len(es) |->
                    Entry(es[k].ctl, [j \in 1..Len(es[k].instructions) |->
                                        substitute_labels(es[k].instructions[j])])]
       IN  /\ entries' = rs
           /\ to_poke' = AllInstructions(rs)
    /\ entry_ctl' = "None"
    /\ instructions' = <<>>
    /\ in_block' = FALSE
    /\ pc' = "relocate"
    /\ UNCHANGED <<line_no, req, asm_mode, fix_mode, start, end, data_opt, weights, fields,
                   snapshot, base_address, end_address, subs, keep, nowarn, data,
                   remote_entries, address_map, address, removed, output, error,
                   declared, directives_read, line, last, pokes, ctlvars, othervars>>

\* ------------------------------------------------------------ _relocate
\* A slip in line 197: base_address is the address poked last.
_poke_last(m, addr, bytes) ==
    [snapshot |-> SliceAssign(m.snapshot, addr, bytes),
     base_address |-> addr,
     end_address |-> MaxOf(m.end_address, addr + Len(bytes)),
     pokes |-> m.pokes \cup {<<addr, Len(bytes)>>}]

\* _poke(address, data) applied to [snapshot, base_address, end_address, pokes]
_poke(m, addr, bytes) ==
    [snapshot |-> SliceAssign(m.snapshot, addr, bytes),
     base_address |-> MinOf(m.base_address, addr),
     end_address |-> MaxOf(m.end_address, addr + Len(bytes)),
     pokes |-> m.pokes \cup {<<addr, Len(bytes)>>}]

\* parse_asm_data_directive(snapshot, address, directive, False)
parse_asm_data_directive(addr, directive) ==
    [address |-> IF directive.address = None THEN addr ELSE directive.address,
     data |-> directive.bytes]

\* The 'while i.data' loop of _relocate (lines 209-212).
RECURSIVE PokeData(_, _, _)
PokeData(m, addr, ds) ==
    IF ds = <<>> THEN m
    ELSE LET p == parse_asm_data_directive(addr, Head(ds))
         IN  PokeData(_poke(m, p.address, p.data), p.address + Len(p.data), Tail(ds))

\* One turn of the loop of _relocate (lines 207-213): the data directives of
\* the instruction are poked, then the instruction.
Relocate ==
    /\ pc = "relocate"
    /\ to_poke # <<>>
    /\ LET i == Head(to_poke)
           m0 == [snapshot |-> snapshot, base_address |-> base_address,
                  end_address |-> end_address, pokes |-> pokes]
           m1 == PokeData(m0, i.real_address, i.data)
           m2 == _poke(m1, i.real_address, assemble(i.operation, i.real_address))
       IN  /\ snapshot' = m2.snapshot
           /\ base_address' = m2.base_address
           /\ end_address' = m2.end_address
           /\ pokes' = m2.pokes
    /\ to_poke' = Tail(to_poke)
    /\ UNCHANGED <<pc, line_no, in_block, req, asm_mode, fix_mode, start, end, data_opt,
                   weights, fields, subs, keep, nowarn, data, entry_ctl, entries,
                   remote_entries, instructions, address_map, address, removed,
                   output, error, declared, directives_read, line, last, ctlvars, othervars>>

\* ------------------------------------------------------------ write
Write ==
    /\ pc = "relocate"
    /\ to_poke = <<>>
    /\ LET b == IF start < 0 THEN base_address ELSE start
           e == IF end > 65536 THEN end_address ELSE end
       IN  output' = Slice(snapshot, b, e)
    /\ pc' = "done"
    /\ UNCHANGED <<line_no, in_block, req, asm_mode, fix_mode, start, end, data_opt,
                   weights, fields, snapshot, base_address, end_address, subs, keep,
                   nowarn, data, entry_ctl, entries, remote_entries, instructions,
                   address_map, address, removed, to_poke, error, declared,
                   directives_read, line, last, pokes, ctlvars, othervars>>

\* ---------------------------------------------------------- specifications
\* The writer in every pair of modes, with the default options, reading
\* instruction lines and sub/fix directives.
Init == BinWriterInit(AllModes, DefaultOptions)

Next ==
    \/ ParseInstruction
    \/ ParseSubFixDirective
    \/ EndEntry
    \/ EndOfFile
    \/ Relocate
    \/ Write

Spec == Init /\ [][Next]_vars

\* The writer with asm_mode = fix_mode = 0 and every choice of options,
\* reading instruction lines and the other directives.
InitOptions == BinWriterInit({<<0, 0>>, <<1, 0>>}, AllOptions)

NextOptions ==
    \/ ParseInstruction
    \/ ParseOrgDirective
    \/ ParseOtherDirective
    \/ EndEntry
    \/ EndOfFile
    \/ Relocate
    \/ Write

SpecOptions == InitOptions /\ [][NextOptions]_vars

\* ======================================================= generate_ctls
\* The classifier of snaskool.py.  The snapshot is zero except for MemTop
\* bytes from a base address; generate_ctls(snapshot, start, end, code_map)
\* is followed one pass of its loops at a time.

\* The bases of the MemTop bytes that may differ from zero.
Bases == {0, 40000}

\* The values of those bytes: NOP, JR d, LD A,n, "A" (LD B,C) and RET.
Bytes == {0, 24, 62, 65, 201}

\* All bytes of the snapshot from Top on are zero.
Top == Max(DOMAIN snapshot.mem) + 1

\* ------------------------------------------------- skoolkit.disassembler
OP_NOP == <<"N", "O", "P">>
OP_RET == <<"R", "E", "T">>
OP_JR == <<"J", "R", " ">>
OP_LD_A == <<"L", "D", " ", "A", ",">>
OP_LD_B_C == <<"L", "D", " ", "B", ",", "C">>
OP_DEFB == <<"D", "E", "F", "B", " ">>
OP_JR_NZ == <<"J", "R", " ", "N", "Z", ",">>
OP_LD_BC == <<"L", "D", " ", "B", "C", ",">>

\* The displacement byte d of JR d as a signed number.
Signed(d) == IF d > 127 THEN d - 256 ELSE d

\* The instruction at address a: Instruction(address, operation, bytes).
Decode(a) ==
    LET b == Peek(snapshot, a)
        n == Peek(snapshot, a + 1)
    IN  IF b = 0 THEN [address |-> a, operation |-> OP_NOP, bytes |-> <<0>>]
        ELSE IF b = 201 THEN [address |-> a, operation |-> OP_RET, bytes |-> <<201>>]
        ELSE IF b = 65 THEN [address |-> a, operation |-> OP_LD_B_C, bytes |-> <<65>>]
        ELSE IF b = 24
             THEN [address |-> a, operation |-> OP_JR \o Str((a + 2 + Signed(n)) % 65536),
                   bytes |-> <<24, n>>]
        ELSE IF b = 62 THEN [address |-> a, operation |-> OP_LD_A \o Str(n), bytes |-> <<62, n>>]
        ELSE IF b = 32
             THEN [address |-> a, operation |-> OP_JR_NZ \o Str((a + 2 + Signed(n)) % 65536),
                   bytes |-> <<32, n>>]
        ELSE IF b = 1
             THEN [address |-> a, operation |-> OP_LD_BC \o Str(n + 256 * Peek(snapshot, a + 2)),
                   bytes |-> <<1, n, Peek(snapshot, a + 2)>>]
        ELSE [address |-> a, operation |-> OP_DEFB \o Str(b), bytes |-> <<b>>]

\* instruction.size()
size(i) == Len(i.bytes)

\* Disassembler.disassemble(a, e): the instructions from a while the address
\* is below e.  The instructions at Top and beyond, all of them NOP, are left
\* out of the sequence.
RECURSIVE disassemble(_, _)
disassemble(a, e) ==
    IF a >= e \/ a >= Top THEN <<>>
    ELSE <<Decode(a)>> \o disassemble(a + size(Decode(a)), e)

\* disassemble(a, e)[-1], for a < e
LastInstruction(a, e) ==
    LET is == disassemble(a, e)
    IN  IF is # <<>> /\ is[Len(is)].address + size(is[Len(is)]) >= e
        THEN is[Len(is)]
        ELSE Decode(e - 1)

\* Disassembler.ignore(a, e): one placeholder with no operation.
ignore(a, e) == <<[address |-> a, operation |-> <<>>, bytes |-> Slice(snapshot, a, MinOf(e, Top + 3))]>>

\* Disassembler.defb_range, defm_range and defs: one statement for the range.
defb_range(a, e) == <<[address |-> a, operation |-> OP_DEFB, bytes |-> Slice(snapshot, a, MinOf(e, Top + 3))]>>

\* A slip in line 188: JR d ends a block whatever its displacement.
_is_terminal_instruction_jr(instruction) ==
    LET d == instruction.bytes
    IN  \/ d[1] \in {195, 201, 233}
        \/ /\ Len(d) = 2
           /\ \/ d[1] = 237 /\ d[2] \in {69, 77, 85, 93, 101, 109, 117, 125}
              \/ d[1] \in {221, 253} /\ d[2] = 233
              \/ d[1] = 24

\* -------------------------------------------------- _is_terminal_instruction
_is_terminal_instruction(instruction) ==
    LET d == instruction.bytes
    IN  \/ d[1] \in {195, 201, 233}
        \/ /\ Len(d) = 2
           /\ \/ d[1] = 237 /\ d[2] \in {69, 77, 85, 93, 101, 109, 117, 125}
              \/ d[1] \in {221, 253} /\ d[2] = 233
              \/ d[1] = 24 /\ d[2] > 0

\* ------------------------------------------------------------- _get_blocks
\* sorted(ctls)
RECURSIVE Sorted(_)
Sorted(S) == IF S = {} THEN <<>> ELSE <<Min(S)>> \o Sorted(S \ {Min(S)})

\* _get_blocks(ctls): [ctl, start, end] for each key but the last, which
\* ends the block before it.  With no key, blocks.pop() raises IndexError.
_get_blocks(c) ==
    LET ks == Sorted(DOMAIN c)
    IN  [i \in 1..(Len(ks) - 1) |-> <<c[ks[i]], ks[i], ks[i + 1]>>]

\* del ctls[a]
Del(c, a) == [k \in DOMAIN c \ {a} |-> c[k]]

\* ctls[a] = v
Put(c, a, v) == [k \in DOMAIN c \cup {a} |-> IF k = a THEN v ELSE c[k]]

\* ------------------------------------------------ _find_terminal_instruction
\* The local next_ctl before its first assignment.
Unbound == "unbound"

\* _find_terminal_instruction(disassembler, ctls, start, end, ctl), from the
\* address reached so far: [ctls, address, raised].  ctl is "None" for None.
\* With ctl given, the NOPs from Top on change nothing and end the walk at e.
RECURSIVE _find_terminal_instruction(_, _, _, _, _)
_find_terminal_instruction(c, addr, e, ctl, next_ctl) ==
    IF addr >= e THEN [ctls |-> c, address |-> addr, raised |-> "none"]
    ELSE IF addr >= Top /\ ctl # "None" THEN [ctls |-> c, address |-> e, raised |-> "none"]
    ELSE
        LET instruction == Decode(addr)
            next == addr + size(instruction)
            covered == IF ctl = "None" THEN (addr .. next - 1) \cap DOMAIN c ELSE {}
            nc == IF covered # {} THEN c[Max(covered)] ELSE next_ctl
            c1 == [k \in DOMAIN c \ covered |-> c[k]]
        IN  IF ctl = "None" /\ next \in DOMAIN c1 /\ c1[next] = "c"
            THEN [ctls |-> c1, address |-> next, raised |-> "none"]
            ELSE IF _is_terminal_instruction(instruction)
            THEN IF next < 65536 /\ next \notin DOMAIN c1
                 THEN IF ctl = "None" /\ nc = Unbound
                      THEN [ctls |-> c1, address |-> next, raised |-> "UnboundLocalError"]
                      ELSE [ctls |-> Put(c1, next, IF ctl # "None" THEN ctl ELSE nc),
                            address |-> next, raised |-> "none"]
                 ELSE [ctls |-> c1, address |-> next, raised |-> "none"]
            ELSE _find_terminal_instruction(c1, next, e, ctl, nc)

\* ---------------------------------------------------------- _get_code_blocks
\* The loop of lines 98-105 over the sorted addresses of the code map: the
\* [address, size] pairs of the runs of executed instructions.
RECURSIVE CodeBlocks(_, _)
CodeBlocks(addresses, code_blocks) ==
    IF addresses = <<>> THEN code_blocks
    ELSE LET a == Head(addresses)
             sz == size(Decode(a))
             n == Len(code_blocks)
         IN  IF n > 0 /\ a <= code_blocks[n][1] + code_blocks[n][2]
             THEN IF a = code_blocks[n][1] + code_blocks[n][2]
                  THEN CodeBlocks(Tail(addresses),
                                  [code_blocks EXCEPT ![n] = <<@[1], @[2] + sz>>])
                  ELSE CodeBlocks(Tail(addresses), code_blocks)
             ELSE CodeBlocks(Tail(addresses), Append(code_blocks, <<a, sz>>))

_get_code_blocks(addresses) == CodeBlocks(Sorted(addresses), <<>>)

\* ---------------------------------------------------------- _get_text_blocks
MIN_LENGTH == 3
TEXT_GAP_MAX == 8
\* UNIQUE_CHARS_MIN = 0.25 and PUNC_CHARS_MAX = 0.2, as the divisors 4 and 5.
UNIQUE_CHARS_DIV == 4
PUNC_CHARS_DIV == 5
\* The codes of CHARS and of PUNC_CHARS.
CHARS == {32, 44, 46} \cup (48..57) \cup (65..90) \cup (97..122)
PUNC_CHARS == {44, 46}

\* len(set(letters))
Distinct(s) == Cardinality({s[i] : i \in 1..Len(s)})

\* A slip in line 433: a run that starts TEXT_GAP_MAX bytes after the
\* previous block is not merged with it.
_check_text_gap(t_blocks, t_start, t_end, letters, punc) ==
    LET length == t_end - t_start
        n == Len(t_blocks)
    IN  IF /\ length >= MIN_LENGTH
           /\ UNIQUE_CHARS_DIV * Distinct(letters) >= length
           /\ PUNC_CHARS_DIV * Len(punc) <= length
        THEN IF n > 0
             THEN IF t_blocks[n][2] + TEXT_GAP_MAX > t_start
                  THEN [t_blocks EXCEPT ![n] = <<@[1], t_end>>]
                  ELSE Append(t_blocks, <<t_start, t_end>>)
             ELSE Append(t_blocks, <<t_start, t_end>>)
        ELSE t_blocks

\* A slip in line 429: the punctuation counts among the distinct characters.
_check_text_all(t_blocks, t_start, t_end, letters, punc) ==
    LET length == t_end - t_start
        n == Len(t_blocks)
    IN  IF /\ length >= MIN_LENGTH
           /\ UNIQUE_CHARS_DIV * Distinct(letters \o punc) >= length
           /\ PUNC_CHARS_DIV * Len(punc) <= length
        THEN IF n > 0
             THEN IF t_blocks[n][2] + TEXT_GAP_MAX >= t_start
                  THEN [t_blocks EXCEPT ![n] = <<@[1], t_end>>]
                  ELSE Append(t_blocks, <<t_start, t_end>>)
             ELSE Append(t_blocks, <<t_start, t_end>>)
        ELSE t_blocks

\* _check_text(t_blocks, t_start, t_end, letters, punc): t_blocks afterwards.
_check_text(t_blocks, t_start, t_end, letters, punc) ==
    LET length == t_end - t_start
        n == Len(t_blocks)
    IN  IF /\ length >= MIN_LENGTH
           /\ UNIQUE_CHARS_DIV * Distinct(letters) >= length
           /\ PUNC_CHARS_DIV * Len(punc) <= length
        THEN IF n > 0
             THEN IF t_blocks[n][2] + TEXT_GAP_MAX >= t_start
                  THEN [t_blocks EXCEPT ![n] = <<@[1], t_end>>]
                  ELSE Append(t_blocks, <<t_start, t_end>>)
             ELSE Append(t_blocks, <<t_start, t_end>>)
        ELSE t_blocks

\* 'if t_start:' is false for None and for the address 0.
Truthy(t_start) == t_start # None /\ t_start # 0

\* The loop of lines 447-460 from address a on; st = [t_blocks, letters, punc, t_start].
RECURSIVE TextScan(_, _, _)
TextScan(st, a, e) ==
    IF a >= e
    THEN IF Truthy(st.t_start)
         THEN _check_text(st.t_blocks, st.t_start, e, st.letters, st.punc)
         ELSE st.t_blocks
    ELSE LET b == Peek(snapshot, a)
         IN  IF b \in CHARS
             THEN TextScan([st EXCEPT
                              !.punc = IF b \in PUNC_CHARS THEN Append(@, b) ELSE @,
                              !.letters = IF b \in PUNC_CHARS THEN @ ELSE Append(@, b),
                              !.t_start = IF @ = None THEN a ELSE @],
                           a + 1, e)
             ELSE TextScan([t_blocks |-> IF Truthy(st.t_start)
                                         THEN _check_text(st.t_blocks, st.t_start, a,
                                                          st.letters, st.punc)
                                         ELSE st.t_blocks,
                            letters |-> <<>>, punc |-> <<>>, t_start |-> None],
                           a + 1, e)

\* _get_text_blocks(snapshot, start, end).  The byte at Top, a zero, ends any
\* run, and no run starts after it.
_get_text_blocks(b_start, b_end) ==
    IF b_end - b_start >= MIN_LENGTH
    THEN TextScan([t_blocks |-> <<>>, letters |-> <<>>, punc |-> <<>>, t_start |-> None],
                  b_start, MinOf(b_end, Top + 1))
    ELSE <<>>

\* -------------------------------------------------- CtlParser, Disassembly
\* CtlParser(ctls).get_blocks(): a block from every key of the ctl map to the
\* next key; the largest key closes the last block.
get_blocks(c) ==
    LET ks == Sorted(DOMAIN c)
    IN  [i \in 1..(Len(ks) - 1) |-> [ctl |-> c[ks[i]], start |-> ks[i], end |-> ks[i + 1]]]

\* Entry(...) for a block: next is the address of entry.next, or None.
NewEntry(block) == [ctl |-> block.ctl, address |-> block.start, end |-> block.end, next |-> None]

\* The instructions of an entry (lines 616-640), those of a 'c' entry that
\* start at Top or beyond (all NOP) being left out.
EntryInstructions(e) ==
    IF e.ctl = "c" THEN disassemble(e.address, e.end)
    ELSE IF e.ctl \in {"b", "g", "s", "t", "u", "w"} THEN defb_range(e.address, e.end)
    ELSE ignore(e.address, e.end)

\* entry.instructions[-1]
EntryLastInstruction(e) ==
    IF e.ctl = "c" THEN LastInstruction(e.address, e.end)
    ELSE EntryInstructions(e)[1]

\* entry.bad_blocks is not empty (lines 563-567)
bad_blocks(e) ==
    LET l == EntryLastInstruction(e)
    IN  e.ctl = "c" /\ l.address + size(l) > e.end

\* The loop of _create_entries over the blocks (lines 603-664).
RECURSIVE CreateEntries(_, _, _)
CreateEntries(blocks, es, em) ==
    IF blocks = <<>> THEN [entries |-> es, entry_map |-> em]
    ELSE LET block == Head(blocks)
         IN  IF block.start \in DOMAIN em
             THEN CreateEntries(Tail(blocks), Append(es, em[block.start]), em)
             ELSE CreateEntries(Tail(blocks), Append(es, NewEntry(block)),
                                Put(em, block.start, NewEntry(block)))

\* build() without the loop of lines 665-666: no entry is linked.
build_unlinked(d, c) ==
    LET r == CreateEntries(get_blocks(c), <<>>, d.entry_map)
    IN  [built |-> TRUE, entries |-> r.entries, entry_map |-> r.entry_map]

\* Disassembly.build(): the entries are looked up or created, then linked
\* (lines 665-666); an entry is the same object in entries and in entry_map.
build(d, c) ==
    LET r == CreateEntries(get_blocks(c), <<>>, d.entry_map)
        n == Len(r.entries)
        linked == [i \in 1..n |-> IF i < n
                                  THEN [r.entries[i] EXCEPT !.next = r.entries[i + 1].address]
                                  ELSE r.entries[i]]
    IN  [built |-> TRUE,
         entries |-> linked,
         entry_map |-> [a \in DOMAIN r.entry_map |->
                          IF \E i \in 1..n : linked[i].address = a
                          THEN linked[CHOOSE i \in 1..n : linked[i].address = a]
                          ELSE r.entry_map[a]]]

\* Disassembly.remove_entry(address)
remove_entry(d, a) == [d EXCEPT !.entry_map = Del(@, a)]

\* operation[:n] and operation[-5:]
Prefix(op, n) == SubSeq(op, 1, MinOf(n, Len(op)))
Last5(op) == SubSeq(op, MaxOf(1, Len(op) - 4), Len(op))

\* parse_int(get_address(operation)): the address operand of a branch.
BranchTarget(op) ==
    LET others == {i \in 1..Len(op) : ~IsDigit(op[i])}
        digits == SubSeq(op, Max(others) + 1, Len(op))
    IN  IF digits = <<>> THEN None ELSE DecimalValue(digits)

\* The entry has an instruction at address a.
HasInstructionAt(e, a) ==
    LET is == EntryInstructions(e)
    IN  \/ \E i \in 1..Len(is) : is[i].address = a
        \/ /\ e.ctl = "c" /\ a >= Top /\ a >= e.address /\ a < e.end
           /\ (is = <<>> \/ a >= is[Len(is)].address + size(is[Len(is)]))

\* _calculate_references: the entries (by index) that refer to the instruction
\* of entry k at address a, which self.instructions must map to entry k.
Referrers(es, k, a) ==
    IF \E j \in (k + 1)..Len(es) : HasInstructionAt(es[j], a) THEN {}
    ELSE {j \in 1..Len(es) :
            \E i \in 1..Len(EntryInstructions(es[j])) :
                LET op == EntryInstructions(es[j])[i].operation
                IN  /\ (es[j].ctl # "u" \/ j = k)
                    /\ Prefix(op, 2) \in {<<"D", "J">>, <<"J", "R">>, <<"J", "P">>,
                                          <<"C", "A">>, <<"R", "S">>}
                    /\ BranchTarget(op) = a}

\* ------------------------------------------- _generate_ctls_with_code_map
\* Phase 1 (lines 228-232): the loop over the code blocks.
RECURSIVE SeedBlocks(_, _)
SeedBlocks(c, code_blocks) ==
    IF code_blocks = <<>> THEN c
    ELSE LET a == Head(code_blocks)[1]
             length == Head(code_blocks)[2]
             c1 == Put(c, a, "c")
         IN  SeedBlocks(IF a + length < end THEN Put(c1, a + length, "U") ELSE c1,
                        Tail(code_blocks))

\* ctls = {start: k, end: 'i'}
InitialCtls(k) == Put(Put(<<>>, start, k), end, "i")

Seed ==
    /\ cpc = "generate"
    /\ code_map.file
    /\ ctls' = SeedBlocks(InitialCtls("U"), _get_code_blocks(code_map.addresses))
    /\ cpc' = "extend"
    /\ phase' = 1
    /\ UNCHANGED <<bwvars, othervars, code_map, disassembly, raised>>

\* Phase 2 (lines 237-247): one turn of 'while 1', the for loop over the
\* blocks computed before it; done is FALSE when the loop was left by 'break'.
RECURSIVE ExtendLoop(_, _)
ExtendLoop(c, blocks) ==
    IF blocks = <<>> THEN [ctls |-> c, done |-> TRUE, raised |-> "none"]
    ELSE LET b == Head(blocks)
         IN  IF b[1] = "c" /\ ~_is_terminal_instruction(LastInstruction(b[2], b[3]))
             THEN LET r == _find_terminal_instruction(c, b[3], end, "None", Unbound)
                  IN  IF r.raised # "none"
                      THEN [ctls |-> r.ctls, done |-> FALSE, raised |-> r.raised]
                      ELSE IF r.address < end
                      THEN [ctls |-> r.ctls, done |-> FALSE, raised |-> "none"]
                      ELSE ExtendLoop(r.ctls, Tail(blocks))
             ELSE ExtendLoop(c, Tail(blocks))

ExtendPass ==
    /\ cpc = "extend"
    /\ \E r \in {ExtendLoop(ctls, _get_blocks(ctls))} :
        /\ ctls' = r.ctls
        /\ raised' = r.raised
        /\ cpc' = IF r.raised # "none" THEN "raised"
                  ELSE IF r.done THEN "discover" ELSE "extend"
        /\ phase' = IF r.raised = "none" /\ r.done THEN 2 ELSE 0
    /\ UNCHANGED <<bwvars, othervars, code_map, disassembly>>

\* Phase 3 (lines 251-275): one turn of 'while 1'.  The first build reuses
\* the entries that Disassembly.__init__ created from the same ctl map.
Promotable(es, k, c) ==
    /\ es[k].ctl = "U"
    /\ \E i \in 1..Len(EntryInstructions(es[k])) :
          \E j \in Referrers(es, k, EntryInstructions(es[k])[i].address) :
              c[es[j].address] = "c"

DiscoverPass ==
    /\ cpc = "discover"
    /\ \E d \in {build(disassembly, ctls)} :
        LET es == d.entries
            found == {k \in 1..Len(es) : Promotable(es, k, ctls)}
        IN  IF found = {}
            THEN /\ ctls' = ctls
                 /\ disassembly' = d
                 /\ cpc' = "split"
                 /\ phase' = 3
            ELSE LET entry == es[Min(found)]
                     e_end == IF entry.next # None THEN entry.next ELSE 65536
                     r == _find_terminal_instruction(Put(ctls, entry.address, "c"),
                                                     entry.address, e_end, entry.ctl, Unbound)
                 IN  /\ ctls' = r.ctls
                     /\ disassembly' = remove_entry(d, entry.address)
                     /\ cpc' = "discover"
                     /\ phase' = 0
    /\ UNCHANGED <<bwvars, othervars, code_map, raised>>

\* Phase 4 (lines 278-284): 'while next_address < b_end'.
RECURSIVE SplitBlock(_, _, _)
SplitBlock(c, next_address, b_end) ==
    IF next_address >= b_end THEN c
    ELSE LET r == _find_terminal_instruction(c, next_address, b_end, "c", Unbound)
         IN  SplitBlock(r.ctls, r.address, b_end)

\* The for loop of phase 4 over the blocks computed before it.
RECURSIVE SplitLoop(_, _, _)
SplitLoop(c, d, blocks) ==
    IF blocks = <<>> THEN [ctls |-> c, disassembly |-> d]
    ELSE LET b == Head(blocks)
         IN  IF b[1] = "c"
             THEN LET r == _find_terminal_instruction(c, b[2], b[3], "c", Unbound)
                  IN  IF r.address < b[3]
                      THEN SplitLoop(SplitBlock(r.ctls, r.address, b[3]),
                                     remove_entry(d, b[2]), Tail(blocks))
                      ELSE SplitLoop(r.ctls, d, Tail(blocks))
             ELSE SplitLoop(c, d, Tail(blocks))

Split ==
    /\ cpc = "split"
    /\ \E r \in {SplitLoop(ctls, disassembly, _get_blocks(ctls))} :
        /\ ctls' = r.ctls
        /\ disassembly' = r.disassembly
    /\ cpc' = "join"
    /\ phase' = 4
    /\ UNCHANGED <<bwvars, othervars, code_map, raised>>

\* last_instr == 'RET' or (last_instr[:2] in ('JP', 'JR') and last_instr[3:].isdigit())
EndsBlock(op) ==
    \/ op = OP_RET
    \/ /\ Prefix(op, 2) \in {<<"J", "P">>, <<"J", "R">>}
       /\ Len(op) > 3
       /\ \A i \in 4..Len(op) : IsDigit(op[i])

\* An instruction of the entry is a JR or JP to the entry that follows it.
BranchesToNext(entry) ==
    \E i \in 1..Len(EntryInstructions(entry)) :
        LET op == EntryInstructions(entry)[i].operation
        IN  /\ Prefix(op, 2) \in {<<"J", "R">>, <<"J", "P">>}
            /\ Last5(op) = Str(entry.next)

\* The for loop over disassembly.entries[:-1] that joins the entries for which
\* Joins(how, ...) holds (lines 292-301, 341-347, 353-361, 370-379), from
\* entry k on.  'del ctls[a]' raises KeyError when a is no key.
Joins(how, entry, c) ==
    CASE how = "code branch" -> entry.ctl = "c" /\ BranchesToNext(entry)
      [] how = "branch" -> BranchesToNext(entry)
      [] how = "overlap" -> bad_blocks(entry)
      [] how = "no terminal" -> ~EndsBlock(EntryLastInstruction(entry).operation) /\ entry.next < end

\* A slip in the joining loops: the boundary between the two entries is kept.
RECURSIVE JoinLoop_kept(_, _, _, _, _)
JoinLoop_kept(c, d, k, done, how) ==
    IF k >= Len(d.entries) THEN [ctls |-> c, disassembly |-> d, done |-> done, raised |-> "none"]
    ELSE LET entry == d.entries[k]
         IN  IF Joins(how, entry, c)
             THEN IF entry.next \notin DOMAIN c
                  THEN [ctls |-> c, disassembly |-> d, done |-> FALSE, raised |-> "KeyError"]
                  ELSE JoinLoop_kept(c,
                                     remove_entry(remove_entry(d, entry.address), entry.next),
                                     k + 1, FALSE, how)
             ELSE JoinLoop_kept(c, d, k + 1, done, how)

RECURSIVE JoinLoop(_, _, _, _, _)
JoinLoop(c, d, k, done, how) ==
    IF k >= Len(d.entries) THEN [ctls |-> c, disassembly |-> d, done |-> done, raised |-> "none"]
    ELSE LET entry == d.entries[k]
         IN  IF Joins(how, entry, c)
             THEN IF entry.next \notin DOMAIN c
                  THEN [ctls |-> c, disassembly |-> d, done |-> FALSE, raised |-> "KeyError"]
                  ELSE JoinLoop(Del(c, entry.next),
                                remove_entry(remove_entry(d, entry.address), entry.next),
                                k + 1, FALSE, how)
             ELSE JoinLoop(c, d, k + 1, done, how)

\* Phase 5 (lines 289-303): one turn of 'while 1'.
JoinPass ==
    /\ cpc = "join"
    /\ \E r \in {JoinLoop(ctls, build(disassembly, ctls), 1, TRUE, "code branch")} :
        /\ ctls' = r.ctls
        /\ disassembly' = r.disassembly
        /\ raised' = r.raised
        /\ cpc' = IF r.raised # "none" THEN "raised" ELSE IF r.done THEN "text" ELSE "join"
        /\ phase' = IF r.raised = "none" /\ r.done THEN 5 ELSE 0
    /\ UNCHANGED <<bwvars, othervars, code_map>>

\* Phase 6 (lines 306-312): the loop over the text blocks of a 'U' block.
RECURSIVE MarkText(_, _, _)
MarkText(c, t_blocks, b_end) ==
    IF t_blocks = <<>> THEN c
    ELSE LET t_start == Head(t_blocks)[1]
             t_end == Head(t_blocks)[2]
             c1 == Put(c, t_start, "t")
         IN  MarkText(IF t_end < b_end THEN Put(c1, t_end, "b") ELSE c1, Tail(t_blocks), b_end)

RECURSIVE TextLoop(_, _)
TextLoop(c, blocks) ==
    IF blocks = <<>> THEN c
    ELSE LET b == Head(blocks)
         IN  IF b[1] = "U"
             THEN TextLoop(MarkText(Put(c, b[2], "b"), _get_text_blocks(b[2], b[3]), b[3]),
                           Tail(blocks))
             ELSE TextLoop(c, Tail(blocks))

TextDetect ==
    /\ cpc = "text"
    /\ ctls' = TextLoop(ctls, _get_blocks(ctls))
    /\ cpc' = "zero"
    /\ phase' = 6
    /\ UNCHANGED <<bwvars, othervars, code_map, disassembly, raised>>

\* sum(snapshot[a:e]) == 0
AllZero(a, e) == \A x \in a..(MinOf(e, Top) - 1) : Peek(snapshot, x) = 0

\* Phase 7 (lines 315-317)
RECURSIVE ZeroLoop(_, _)
ZeroLoop(c, blocks) ==
    IF blocks = <<>> THEN c
    ELSE LET b == Head(blocks)
         IN  ZeroLoop(IF b[1] = "b" /\ AllZero(b[2], b[3]) THEN Put(c, b[2], "s") ELSE c,
                      Tail(blocks))

\* Phase 7, after which _generate_ctls_with_code_map returns.
ZeroCollapse ==
    /\ cpc = "zero"
    /\ ctls' = ZeroLoop(ctls, _get_blocks(ctls))
    /\ cpc' = "post"
    /\ phase' = 7
    /\ UNCHANGED <<bwvars, othervars, code_map, disassembly, raised>>

\* ---------------------------------------- _generate_ctls_without_code_map
\* The loop of lines 327-334 over range(start, end - 1), from address a on.
RECURSIVE SeedTerminals(_, _)
SeedTerminals(c, a) ==
    IF a >= end - 1 THEN c
    ELSE LET b == Peek(snapshot, a)
         IN  SeedTerminals(IF b = 201 THEN Put(c, a + 1, "c")
                           ELSE IF b = 195 /\ a < end - 3 THEN Put(c, a + 3, "c")
                           ELSE IF b = 24 /\ a < end - 2 THEN Put(c, a + 2, "c")
                           ELSE c,
                           a + 1)

\* Lines 322-337: the blocks are seeded and the Disassembly is constructed.
SeedWithoutCodeMap ==
    /\ cpc = "generate"
    /\ ~code_map.file
    /\ \E c \in {SeedTerminals(InitialCtls("c"), start)} :
        /\ ctls' = c
        /\ disassembly' = build(disassembly, c)
    /\ cpc' = "overlap"
    /\ phase' = 1
    /\ UNCHANGED <<bwvars, othervars, code_map, raised>>

\* One turn of a 'while True' loop that joins entries (lines 341-349 and
\* 369-381): the for loop, then the build if anything was joined.
JoinTurn(how, here, there, n) ==
    \E r \in {JoinLoop(ctls, disassembly, 1, TRUE, how)} :
        /\ ctls' = r.ctls
        /\ disassembly' = IF r.raised = "none" /\ ~r.done
                          THEN build(r.disassembly, r.ctls) ELSE r.disassembly
        /\ raised' = r.raised
        /\ cpc' = IF r.raised # "none" THEN "raised" ELSE IF r.done THEN there ELSE here
        /\ phase' = IF r.raised = "none" /\ r.done THEN n ELSE 0

\* Lines 341-349: adjacent blocks that overlap are joined.
OverlapPass ==
    /\ cpc = "overlap"
    /\ JoinTurn("overlap", "overlap", "ends", 2)
    /\ UNCHANGED <<bwvars, othervars, code_map>>

\* Lines 353-363: a block that does not end with RET, JP nn or JR d is joined
\* to the next block.
JoinUnterminated ==
    /\ cpc = "ends"
    /\ \E r \in {JoinLoop(ctls, disassembly, 1, TRUE, "no terminal")} :
        /\ ctls' = r.ctls
        /\ disassembly' = IF r.raised = "none" /\ ~r.done
                          THEN build(r.disassembly, r.ctls) ELSE r.disassembly
        /\ raised' = r.raised
        /\ cpc' = IF r.raised # "none" THEN "raised" ELSE "branch"
        /\ phase' = IF r.raised = "none" THEN 3 ELSE 0
    /\ UNCHANGED <<bwvars, othervars, code_map>>

\* Lines 369-381: adjacent blocks are joined where the first jumps to the second.
BranchPass ==
    /\ cpc = "branch"
    /\ JoinTurn("branch", "branch", "nops", 4)
    /\ UNCHANGED <<bwvars, othervars, code_map>>

\* The address of the first instruction of the entry that is not a NOP, or None.
FirstNotNop(e) ==
    LET is == EntryInstructions(e)
        found == {i \in 1..Len(is) : is[i].operation # OP_NOP}
    IN  IF found = {} THEN None ELSE is[Min(found)].address

\* Lines 384-389: the loop over disassembly.entries, from entry k on.
RECURSIVE MarkNops(_, _, _)
MarkNops(c, es, k) ==
    IF k > Len(es) THEN c
    ELSE LET c1 == Put(c, es[k].address, "s")
             a == FirstNotNop(es[k])
         IN  MarkNops(IF a # None THEN Put(c1, a, "c") ELSE c1, es, k + 1)

MarkNopSequences ==
    /\ cpc = "nops"
    /\ ctls' = MarkNops(ctls, disassembly.entries, 1)
    /\ cpc' = "analyse"
    /\ phase' = 5
    /\ UNCHANGED <<bwvars, othervars, code_map, disassembly, raised>>

\* ------------------------------------------------------------ _check_for_data
UNIQUE_BYTES_NUM == 3
UNIQUE_BYTES_DEN == 10

\* Lines 412-421: some byte of snapshot[a:e] is repeated more than 3 times in a row.
Repeated(a, e) ==
    \E x \in a..(e - 4) : \A y \in (x + 1)..(x + 3) : Peek(snapshot, y) = Peek(snapshot, x)

\* _check_for_data(snapshot, a, e), with d < size * UNIQUE_BYTES_MAX as
\* 10 * d < 3 * size
_check_for_data(a, e) ==
    LET sz == e - a
    IN  \/ sz > 3 /\ Repeated(a, e)
        \/ sz > 9 /\ UNIQUE_BYTES_DEN * Cardinality({Peek(snapshot, x) : x \in a..(e - 1)})
                        < UNIQUE_BYTES_NUM * sz

\* ------------------------------------------------------------ _analyse_blocks
\* Lines 485-486: the loop over the text blocks of a 'c' block.
RECURSIVE MarkCodeText(_, _)
MarkCodeText(c, t_blocks) ==
    IF t_blocks = <<>> THEN c
    ELSE MarkCodeText(Put(Put(c, Head(t_blocks)[1], "t"), Head(t_blocks)[2], "c"),
                      Tail(t_blocks))

\* Lines 481-497: the for loop over the blocks computed before it.
RECURSIVE AnalyseLoop(_, _, _, _)
AnalyseLoop(c, d, blocks, done) ==
    IF blocks = <<>> THEN [ctls |-> c, disassembly |-> d, done |-> done]
    ELSE LET b == Head(blocks)
             text_blocks == _get_text_blocks(b[2], b[3])
         IN  IF b[1] # "c" THEN AnalyseLoop(c, d, Tail(blocks), done)
             ELSE IF text_blocks # <<>>
             THEN AnalyseLoop(MarkCodeText(c, text_blocks), remove_entry(d, b[2]),
                              Tail(blocks), FALSE)
             ELSE IF _check_for_data(b[2], b[3])
             THEN AnalyseLoop(Put(c, b[2], "b"), remove_entry(d, b[2]), Tail(blocks), done)
             ELSE AnalyseLoop(Put(c, b[2], "X"), d, Tail(blocks), done)

\* One turn of the 'while 1' of lines 479-499.
AnalysePass ==
    /\ cpc = "analyse"
    /\ \E r \in {AnalyseLoop(ctls, disassembly, _get_blocks(ctls), TRUE)} :
        /\ ctls' = r.ctls
        /\ disassembly' = r.disassembly
        /\ cpc' = IF r.done THEN "relabel" ELSE "analyse"
        /\ phase' = IF r.done THEN 6 ELSE 0
    /\ UNCHANGED <<bwvars, othervars, code_map, raised>>

\* Lines 502-504
Relabelled(c) == [a \in DOMAIN c |-> IF c[a] = "X" THEN "c" ELSE c[a]]

\* Lines 510-512: the loop over disassembly.entries, from entry k on.
RECURSIVE MarkData(_, _, _)
MarkData(c, es, k) ==
    IF k > Len(es) THEN c
    ELSE MarkData(IF \/ bad_blocks(es[k])
                     \/ /\ c[es[k].address] = "c"
                        /\ ~_is_terminal_instruction(EntryLastInstruction(es[k]))
                  THEN Put(c, es[k].address, "b") ELSE c,
                  es, k + 1)

\* The first address of [a, e) whose byte is not zero, or None.
FirstNotZero(a, e) ==
    LET found == {x \in a..(MinOf(e, Top) - 1) : Peek(snapshot, x) # 0}
    IN  IF found = {} THEN None ELSE Min(found)

\* Lines 515-520: the for loop over the blocks computed before it.
RECURSIVE MarkZero(_, _)
MarkZero(c, blocks) ==
    IF blocks = <<>> THEN c
    ELSE LET b == Head(blocks)
             c1 == Put(c, b[2], "s")
             a == FirstNotZero(b[2], b[3])
         IN  MarkZero(IF b[1] # "c" THEN c ELSE IF a # None THEN Put(c1, a, "c") ELSE c1,
                      Tail(blocks))

\* Lines 502-520, after which _generate_ctls_without_code_map returns.
RelabelAndMark ==
    /\ cpc = "relabel"
    /\ \E d \in {build(disassembly, Relabelled(ctls))} :
        \E c \in {MarkData(Relabelled(ctls), d.entries, 1)} :
            /\ disassembly' = d
            /\ ctls' = MarkZero(c, _get_blocks(c))
    /\ cpc' = "post"
    /\ phase' = 7
    /\ UNCHANGED <<bwvars, othervars, code_map, raised>>

\* ------------------------------------------------------------ generate_ctls
\* The loop of lines 531-536 without line 533: the first block of a run
\* keeps its kind.
RECURSIVE CoalesceLoop_kind(_, _, _)
CoalesceLoop_kind(c, prev_block, blocks) ==
    IF blocks = <<>> THEN c
    ELSE LET block == Head(blocks)
         IN  IF prev_block[1] \in {"b", "s"} /\ block[1] \in {"b", "s"}
             THEN CoalesceLoop_kind(Del(c, block[2]), prev_block, Tail(blocks))
             ELSE CoalesceLoop_kind(c, block, Tail(blocks))

\* The loop of lines 531-536 over blocks[1:].
RECURSIVE CoalesceLoop(_, _, _)
CoalesceLoop(c, prev_block, blocks) ==
    IF blocks = <<>> THEN c
    ELSE LET block == Head(blocks)
         IN  IF prev_block[1] \in {"b", "s"} /\ block[1] \in {"b", "s"}
             THEN CoalesceLoop(Del(Put(c, prev_block[2], "b"), block[2]), prev_block, Tail(blocks))
             ELSE CoalesceLoop(c, block, Tail(blocks))

\* The adjacent data and zero blocks are joined and the ctl map is returned
\* (lines 529-538); blocks[0] raises IndexError when there is no block.
Coalesce ==
    /\ cpc = "post"
    /\ \E blocks \in {_get_blocks(ctls)} :
        IF Len(blocks) = 0
        THEN /\ raised' = "IndexError"
             /\ cpc' = "raised"
             /\ ctls' = ctls
        ELSE /\ raised' = raised
             /\ cpc' = "returned"
             /\ ctls' = CoalesceLoop(ctls, blocks[1], Tail(blocks))
    /\ classified' = ctls
    /\ phase' = 0
    /\ UNCHANGED <<bwvars, results, readvars, finalvars, commentvars, callvars, code_map, disassembly>>

\* ------------------------------------------------ the classifier's inputs
\* No BinWriter is constructed.
NoBinWriter ==
    /\ pc = "idle"
    /\ line_no = 0
    /\ in_block = FALSE
    /\ req = [asm_mode |-> 0, fix_mode |-> 0]
    /\ asm_mode = 0
    /\ fix_mode = 0
    /\ data_opt = FALSE
    /\ weights = Weights(0, 0)
    /\ fields = [asm |-> 0, fix |-> 0]
    /\ base_address = EmptySnapshot.len
    /\ end_address = 0
    /\ subs = NoSubs
    /\ keep = "None"
    /\ nowarn = FALSE
    /\ data = <<>>
    /\ entry_ctl = "None"
    /\ entries = <<>>
    /\ remote_entries = <<>>
    /\ instructions = <<>>
    /\ address_map = <<>>
    /\ address = None
    /\ removed = {}
    /\ to_poke = <<>>
    /\ output = <<>>
    /\ error = NoError
    /\ declared = <<>>
    /\ directives_read = 0
    /\ line = NoLine
    /\ last = NoLast
    /\ pokes = {}

\* generate_ctls(snapshot, start, end, code_map) is called with a snapshot
\* of MemSize bytes from a base, the rest zero; with start one of the first
\* two addresses and end one of the last two; and with no code map or with a
\* code map that lists some addresses of [start, end).
InitCtl ==
    /\ NoBinWriter
    /\ \E base \in Bases, bytes \in [0..(MemSize - 1) -> Bytes] :
        /\ snapshot = [len |-> SNAPSHOT_SIZE,
                       mem |-> [a \in base..(base + MemSize - 1) |-> bytes[a - base]]]
        /\ start \in {base, base + 1}
        /\ end \in {base + MemSize - 1, base + MemSize}
    /\ code_map \in {NoCodeMap}
                    \cup {[file |-> TRUE, addresses |-> A] : A \in SUBSET (start..(end - 1))}
    /\ cpc = "generate"
    /\ ctls = <<>>
    /\ disassembly = NoDisassembly
    /\ phase = 0
    /\ raised = "none"
    /\ OthersIdle

\* The bytes of a longer snapshot: NOP, JR d, LD A,n and RET.
WideBytes == {0, 24, 62, 201}

\* generate_ctls is called for the range from 0 to one past the WideSize
\* bytes of the snapshot that may differ from zero, with no code map or with
\* a code map that lists at most MaxExecuted addresses of the range.
InitCtlWide ==
    /\ NoBinWriter
    /\ \E bytes \in [0..(WideSize - 1) -> WideBytes] :
        snapshot = [len |-> SNAPSHOT_SIZE, mem |-> bytes]
    /\ start = 0
    /\ end = WideSize + 1
    /\ code_map \in {NoCodeMap}
                    \cup {[file |-> TRUE, addresses |-> A] :
                            A \in {X \in SUBSET (start..(end - 1)) : Cardinality(X) <= MaxExecuted}}
    /\ cpc = "generate"
    /\ ctls = <<>>
    /\ disassembly = NoDisassembly
    /\ phase = 0
    /\ raised = "none"
    /\ OthersIdle

NextCtl ==
    \/ Seed
    \/ ExtendPass
    \/ DiscoverPass
    \/ Split
    \/ JoinPass
    \/ TextDetect
    \/ ZeroCollapse
    \/ SeedWithoutCodeMap
    \/ OverlapPass
    \/ JoinUnterminated
    \/ BranchPass
    \/ MarkNopSequences
    \/ AnalysePass
    \/ RelabelAndMark
    \/ Coalesce

SpecCtl == InitCtl /\ [][NextCtl]_vars

SpecCtlWide == InitCtlWide /\ [][NextCtl]_vars

\* The bytes of a snapshot whose code branches: NOP, LD BC,nn (and the
\* displacement 1), JR d, JR NZ,d and RET.
BranchBytes == {0, 1, 24, 32, 201}

\* generate_ctls is called for the range from 40000 to one past the
\* BranchSize bytes that may differ from zero, so that the addresses take
\* five digits, with no code map or with a code map that lists at most
\* MaxExecuted addresses of the range.
InitCtlBranch ==
    /\ NoBinWriter
    /\ \E bytes \in [0..(BranchSize - 1) -> BranchBytes] :
        snapshot = [len |-> SNAPSHOT_SIZE,
                    mem |-> [a \in 40000..(40000 + BranchSize - 1) |-> bytes[a - 40000]]]
    /\ start = 40000
    /\ end = 40000 + BranchSize + 1
    /\ code_map \in {NoCodeMap}
                    \cup {[file |-> TRUE, addresses |-> A] :
                            A \in {X \in SUBSET (start..(end - 1)) : Cardinality(X) <= MaxExecuted}}
    /\ cpc = "generate"
    /\ ctls = <<>>
    /\ disassembly = NoDisassembly
    /\ phase = 0
    /\ raised = "none"
    /\ OthersIdle

SpecCtlBranch == InitCtlBranch /\ [][NextCtl]_vars

\* ------------------------------------------------ generate_ctls, called twice
\* A Disassembly that keeps the entries cached by the call before.
NewDisassembly_cached == [disassembly EXCEPT !.built = FALSE]

\* Disassembly(snapshot, ctl_parser) of lines 252 and 337: every call of
\* generate_ctls constructs its own, with an empty entry_map (line 587).
NewDisassembly == [built |-> FALSE, entries |-> <<>>, entry_map |-> <<>>]

\* generate_ctls has returned and is called again with the same snapshot,
\* start, end and code map; the map it returned is kept for comparison.
CallAgain ==
    /\ cpc = "returned"
    /\ results = <<>>
    /\ results' = <<ctls>>
    /\ cpc' = "generate"
    /\ ctls' = <<>>
    /\ disassembly' = NewDisassembly
    /\ phase' = 0
    /\ UNCHANGED <<bwvars, code_map, raised, classified, readvars, finalvars, commentvars, callvars>>

NextTwice == NextCtl \/ CallAgain

SpecTwice == InitCtl /\ [][NextTwice]_vars

\* ================================================================= claims
\* The table of directive weights: the rank of a keyword, and the modes that
\* enable it.
DirectiveRank(kw) ==
    CASE kw = "isub" -> 1 [] kw = "ssub" -> 2 [] kw = "rsub" -> 3
      [] kw = "ofix" -> 4 [] kw = "bfix" -> 5 [] kw = "rfix" -> 6

DirectiveEnabled(kw) ==
    CASE kw = "isub" -> asm_mode >= 1 [] kw = "ssub" -> asm_mode >= 2
      [] kw = "rsub" -> asm_mode >= 3 [] kw = "ofix" -> fix_mode >= 1
      [] kw = "bfix" -> fix_mode >= 2 [] kw = "rfix" -> fix_mode >= 3

Values(ds) == [i \in 1..Len(ds) |-> ds[i].value]
OpsOf(vs) == [i \in 1..Len(vs) |-> vs[i].op]
SizedOps == [i \in 1..Len(last.sized) |-> last.sized[i].operation]
EnabledDeclared == SelectSeq(last.declared, LAMBDA d : DirectiveEnabled(d.kw))

\* C1: when an instruction line follows at least one enabled sub/fix
\* directive, the operations used for it are exactly the values declared at
\* the highest enabled weight, in the order declared, and every operation the
\* line is given comes from those values or is the original operation.
C1_SubPrecedence ==
    (last.kind = "instruction" /\ EnabledDeclared # <<>>) =>
        LET en == EnabledDeclared
            top == Max({DirectiveRank(en[i].kw) : i \in 1..Len(en)})
            win == SelectSeq(en, LAMBDA d : DirectiveRank(d.kw) = top)
        IN  /\ last.operations = Values(win)
            /\ \A i \in 1..Len(SizedOps) :
                    SizedOps[i] = last.line.op
                    \/ \E j \in 1..Len(win) : SizedOps[i] = win[j].value.op

\* An instruction line read after two enabled directives of different weights.
C1_Witness ==
    /\ last.kind = "instruction"
    /\ last.sized # <<>>
    /\ \E i, j \in 1..Len(last.declared) :
        /\ DirectiveEnabled(last.declared[i].kw)
        /\ DirectiveEnabled(last.declared[j].kw)
        /\ DirectiveRank(last.declared[i].kw) < DirectiveRank(last.declared[j].kw)
        /\ last.declared[i].value # last.declared[j].value

\* C2: a disabled sub/fix directive changes neither the pending substitutions
\* of any enabled weight nor the removed set; an instruction line that follows
\* only disabled directives uses its original operation; and with both modes
\* 0 the removed set stays empty and every instruction line is given exactly
\* its original operation.
C2_DisabledStep ==
    (/\ directives_read' = directives_read + 1
     /\ line'.kind \in {"sub", "remove", "if"}
     /\ Resolve(line').kind \in {"sub", "remove"}
     /\ ~DirectiveEnabled(Resolve(line').kw))
    => /\ removed' = removed
       /\ \A w \in DOMAIN subs' \ {0} : w \in DOMAIN subs /\ subs'[w] = subs[w]

C2_DisabledInert ==
    /\ [](last.kind = "instruction" /\ EnabledDeclared = <<>>
            => last.operations = <<Value({}, last.line.op)>>)
    /\ [](asm_mode = 0 /\ fix_mode = 0
            => /\ removed = {}
               /\ (last.kind = "instruction" /\ ~last.failed) => SizedOps = <<last.line.op>>)
    /\ [][C2_DisabledStep]_vars

\* An instruction line that follows a disabled directive and is given its
\* original operation.
C2_Witness ==
    /\ last.kind = "instruction"
    /\ last.declared # <<>>
    /\ EnabledDeclared = <<>>
    /\ SizedOps = <<last.line.op>>
    /\ line.kind = "remove"
    /\ ~DirectiveEnabled(line.kw)
    /\ removed = {}

\* The size _get_size gives the operation of a recorded instruction.
SizeOf(i) == IF IsRelativeJump(i.operation) THEN 2
             ELSE Len(assemble(i.operation, i.real_address))

RECURSIVE SumSizes(_, _)
SumSizes(is, k) == IF k = 0 THEN 0 ELSE SizeOf(is[k]) + SumSizes(is, k - 1)

\* Every instruction recorded so far, in reading order.
Recorded == AllInstructions(entries) \o instructions
AssembledBytes(is) == Concat([k \in 1..Len(is) |-> assemble(is[k].operation, is[k].real_address)])
IdentityRun == asm_mode = 0 /\ fix_mode = 0 /\ directives_read = 0

\* C3 as stated: with no directive and both modes 0, address_map[a] is a for
\* every declared address a, and the output is the assembled bytes.
C3_Original ==
    IdentityRun =>
        /\ \A a \in DOMAIN address_map \ {None} : address_map[a] = Str(a)
        /\ pc = "done" => output = AssembledBytes(Recorded)

\* C3 as amended: with no directive and both modes 0, the instructions are
\* placed one after the other from the first declared address, the output is
\* the concatenation of their assembled bytes, and address_map[a] is the
\* address (in decimal) at which the first line declaring a was placed, which
\* is a only if a is the first declared address plus the sizes of the
\* instructions before that line.
C3_Identity ==
    IdentityRun =>
        LET is == Recorded IN
        /\ \A k \in 1..Len(is) :
              /\ is[k].real_address = is[1].address + SumSizes(is, k - 1)
              /\ (is[k].address # None /\ \A j \in 1..(k - 1) : is[j].address # is[k].address)
                    => /\ address_map[is[k].address] = Str(is[k].real_address)
                       /\ (address_map[is[k].address] = Str(is[k].address)
                            <=> is[k].address = is[1].address + SumSizes(is, k - 1))
        /\ pc = "done" => output = AssembledBytes(is)

\* Two instruction lines were written out, the second declared at an address
\* other than the one it was placed at.
C3_Witness ==
    /\ IdentityRun
    /\ pc = "done"
    /\ Len(output) >= 2
    /\ \E k \in 2..Len(Recorded) :
          /\ Recorded[k].address # None
          /\ Recorded[k].address # Recorded[k].real_address
          /\ \A j \in 1..(k - 1) : Recorded[j].address # Recorded[k].address

\* C4: the effective modes are the requested ones, except that fix_mode 3
\* makes asm_mode 3 and otherwise asm_mode 3 makes fix_mode at least 1; the
\* weights and the fields of @if are those of the effective modes.
C4_ModeCoupling ==
    /\ asm_mode = (IF req.fix_mode = 3 THEN 3 ELSE req.asm_mode)
    /\ fix_mode = (IF req.fix_mode = 3 THEN 3
                   ELSE IF req.asm_mode = 3 THEN MaxOf(req.fix_mode, 1)
                   ELSE req.fix_mode)
    /\ weights = [k \in SubKeywords |-> IF DirectiveEnabled(k) THEN DirectiveRank(k) ELSE 0]
    /\ fields = [asm |-> asm_mode, fix |-> fix_mode]

\* A writer asked for asm_mode 3 alone has read an @if({fix}>=1) directive,
\* which took effect.
C4_Witness ==
    /\ req = [asm_mode |-> 3, fix_mode |-> 0]
    /\ fix_mode = 1
    /\ line.kind = "if" /\ line.field = "fix"
    /\ 65534 \in removed

\* C5: when the declared address of an instruction line is in the removed
\* set, its original or replacement operation is not given a size, while its
\* prepended and appended operations are; otherwise all of them are; and the
\* removed set is empty when an entry starts.
C5_Suppression ==
    /\ (last.kind = "instruction" /\ ~last.failed) =>
        LET vs == last.operations
            pre == SelectSeq(vs, LAMBDA v : ">" \in v.prefix /\ v.op # NoOp)
            non == SelectSeq(vs, LAMBDA v : ">" \notin v.prefix)
            replaced == non # <<>> /\ "+" \notin non[1].prefix
            main == IF replaced /\ non[1].op # NoOp THEN non[1].op ELSE last.line.op
            chained == SelectSeq(IF replaced THEN Tail(non) ELSE non, LAMBDA v : v.op # NoOp)
            suppressed == last.skool_address # None /\ last.skool_address \in last.removed_before
        IN  SizedOps = OpsOf(pre) \o (IF suppressed \/ main = NoOp THEN <<>> ELSE <<main>>)
                        \o OpsOf(chained)
    /\ (pc = "parse" /\ ~in_block) => removed = {}

\* A suppressed instruction line whose prepended or appended operation was
\* given a size.
C5_Witness ==
    /\ last.kind = "instruction"
    /\ last.skool_address \in last.removed_before
    /\ last.sized # <<>>
    /\ ~last.emit_main

\* C6 as stated: the snapshot always has 65536 elements.
C6_SnapshotLength == snapshot.len = SNAPSHOT_SIZE

PokedFrom == {p[1] : p \in pokes}
PokedTo == {p[1] + p[2] : p \in pokes}

\* C7: base_address and end_address are the least address poked and the
\* greatest address + length poked (65536 and 0 when nothing was poked), and
\* the output is snapshot[b:e] with b = start, or base_address if start < 0,
\* and e = end, or end_address if end > 65536.
C7_WriteBounds ==
    /\ base_address = (IF pokes = {} THEN 65536 ELSE Min(PokedFrom))
    /\ end_address = (IF pokes = {} THEN 0 ELSE Max(PokedTo))
    /\ pc = "done" =>
        LET b == IF start >= 0 THEN start ELSE IF pokes = {} THEN 65536 ELSE Min(PokedFrom)
            e == IF end <= 65536 THEN end ELSE IF pokes = {} THEN 0 ELSE Max(PokedTo)
            n == MinOf(e, snapshot.len) - b
        IN  /\ Len(output) = MaxOf(n, 0)
            /\ \A k \in 1..Len(output) : output[k] = Peek(snapshot, b + k - 1)
            /\ (pokes = {} /\ start < 0 /\ end > 65536) => output = <<>>

\* A binary written with default start after pokes at two different addresses,
\* the later one at the lower address.
C7_Witness ==
    /\ pc = "done"
    /\ start < 0
    /\ Cardinality(PokedFrom) >= 2
    /\ Len(output) >= 2
    /\ address < Max(PokedFrom)

InRange(a) == start <= a /\ a < end
RecordedOfLast == Cardinality({i \in 1..Len(last.sized) : InRange(last.sized[i].address)})

\* C8 as stated: an instruction line whose address field is not a valid
\* address raises the error that quotes the field and the line.
C8_Original ==
    (last.kind \in {"instruction", "invalid"} /\ get_int_param(last.line.field) = ValueError)
        => /\ pc = "error"
           /\ error = [kind |-> "Invalid address", field |-> last.line.field, line |-> last.line]

\* C8 as amended: an address field that is not a valid address is fatal when
\* it is not blank or when there is no running address; a blank field with a
\* running address is accepted, and the line has no skool address.  An
\* operation of size 0 is fatal and no Instruction is appended for it.
C8_MalformedAddress ==
    /\ (last.kind \in {"instruction", "invalid"} /\ get_int_param(last.line.field) = ValueError) =>
        IF Strip(last.line.field) # <<>> \/ last.address_before = None
        THEN /\ last.kind = "invalid"
             /\ pc = "error"
             /\ error = [kind |-> "Invalid address", field |-> last.line.field, line |-> last.line]
             /\ Len(instructions) = last.first
        ELSE /\ last.kind = "instruction"
             /\ last.skool_address = None
             /\ error.kind # "Invalid address"
    /\ (last.kind = "invalid") => get_int_param(last.line.field) = ValueError
    /\ (last.kind = "instruction" /\ last.failed) =>
        /\ pc = "error"
        /\ error.kind = "Failed to assemble"
        /\ ~IsRelativeJump(error.operation)
        /\ assembler_get_size(error.operation, error.address) = 0
        /\ Len(instructions) = last.first + RecordedOfLast
        /\ \A k \in 1..Len(last.sized) : last.sized[k].size > 0
    /\ (pc = "error") <=> (error # NoError)

\* A line with a blank address field was read with a running address, and
\* its operation was given a size.
C8_Witness ==
    /\ last.kind = "instruction"
    /\ last.line.field = BlankField
    /\ last.sized # <<>>
    /\ pc = "parse"

\* ------------------------------------------------------------ the ctl map
\* The kinds of block that a returned ctl map may hold.
BlockKinds == {"b", "c", "g", "s", "t", "u", "w", "i"}

\* Address a lies in exactly one block of the ctl map: some key is at or below
\* it, some key is above it, and the nearest key at or below it has a block kind.
Covered(a) ==
    /\ \E b \in DOMAIN ctls : b <= a
    /\ \E n \in DOMAIN ctls : n > a
    /\ ctls[Max({b \in DOMAIN ctls : b <= a})] \in BlockKinds

\* The least key of the ctl map is start, and the largest key is at or beyond
\* end and has kind 'i'.
SentinelKept ==
    /\ DOMAIN ctls # {}
    /\ Min(DOMAIN ctls) = start
    /\ Max(DOMAIN ctls) >= end
    /\ ctls[Max(DOMAIN ctls)] = "i"

\* C9: in the ctl map that generate_ctls returns, with or without a code map,
\* every address of [start, end) lies in exactly one block, whose kind is one
\* of b, c, g, s, t, u, w and i, and no key has the working kind 'U' or 'X'.
C9_AddressCoverage ==
    cpc = "returned" =>
        /\ \A a \in start..(end - 1) : Covered(a)
        /\ \A k \in DOMAIN ctls : ctls[k] \notin {"U", "X"}

\* C10: at the end of every phase of the classifier, and in the ctl map that
\* generate_ctls returns, the least key is start and the largest key is at or
\* beyond end and has kind 'i': no phase deletes the sentinel or changes its kind.
C10_SentinelInvariant ==
    (phase \in 1..7 \/ cpc = "returned") => SentinelKept

TerminalInside(a, e) ==
    LET is == disassemble(a, e)
    IN  \E j \in 1..Len(is) :
            /\ _is_terminal_instruction(is[j])
            /\ is[j].address + size(is[j]) < e

\* C12: immediately after step (4) of _generate_ctls_with_code_map, no 'c'
\* block of the ctl map, disassembled from its start, has a terminal
\* instruction other than its last instruction.
C12_TerminalSplit ==
    (code_map.file /\ phase = 4) =>
        \A i \in 1..Len(_get_blocks(ctls)) :
            _get_blocks(ctls)[i][1] = "c" =>
                ~TerminalInside(_get_blocks(ctls)[i][2], _get_blocks(ctls)[i][3])

\* The kind of the i-th block of the ctl map c is 'b' or 's'; the largest key
\* of the map starts no block.
DataOrZero(c, i) ==
    /\ i \in 1..(Cardinality(DOMAIN c) - 1)
    /\ c[Sorted(DOMAIN c)[i]] \in {"b", "s"}

\* The ctl map c with every run of adjacent 'b' and 's' blocks replaced by one
\* 'b' block at the run's first address.
Joined(c) ==
    LET ks == Sorted(DOMAIN c)
        kept == {i \in 1..Len(ks) : ~(DataOrZero(c, i) /\ DataOrZero(c, i - 1))}
    IN  [k \in {ks[i] : i \in kept} |->
            LET i == CHOOSE j \in kept : ks[j] = k
            IN  IF DataOrZero(c, i) /\ DataOrZero(c, i + 1) THEN "b" ELSE c[k]]

\* C13: in the ctl map that generate_ctls returns, no two adjacent blocks both
\* have kind 'b' or 's': every run of two or more adjacent 'b' and 's' blocks
\* that the classifier produced is one 'b' block at the run's first address,
\* and every other block is as the classifier produced it.
C13_Coalescing ==
    cpc = "returned" =>
        /\ ctls = Joined(classified)
        /\ \A i \in 1..Cardinality(DOMAIN ctls) :
                ~(DataOrZero(ctls, i) /\ DataOrZero(ctls, i + 1))

\* generate_ctls has returned a map in which a run of three blocks was joined
\* and a block of another kind was kept.
C13_Witness ==
    /\ cpc = "returned"
    /\ \E i \in 1..Cardinality(DOMAIN classified) :
            DataOrZero(classified, i) /\ DataOrZero(classified, i + 1)
                /\ DataOrZero(classified, i + 2)
    /\ \E k \in DOMAIN ctls : ctls[k] \in {"c", "t"}

\* ------------------------------------------------- the code map reader
\* A line of a log, with what it was written to record: the text is all the
\* reader sees; 'records' and 'address' say which address, if any, the line
\* stands for.
Records(text, a) == [text |-> text, records |-> TRUE, address |-> a]
Silent(text) == [text |-> text, records |-> FALSE, address |-> 0]

\* Lines of a Fuse profile: 0x, four hex digits, a comma and a count.
FuseLines ==
    {Records(<<"0", "x", "0", "0", "0", "3", ",", "1">>, 3),
     Records(<<"0", "x", "0", "0", "0", "1", ",", "9">>, 1),
     Records(<<" ", "0", "x", "0", "0", "0", "2", ",", "1">>, 2),
     Records(<<"0", "x", "F", "F", "F", "F", ",", "2">>, 65535),
     Records(<<"0", "x", "-", "0", "0", "1", ",", "1">>, -1),
     Silent(<<>>)}

\* Lines of a Spud log: 'PC = ' and four hex digits.
SpudLines ==
    {Records(<<"P", "C", " ", "=", " ", "0", "0", "0", "3">>, 3),
     Records(<<"P", "C", " ", "=", " ", "0", "0", "0", "1", " ">>, 1),
     Records(<<"P", "C", " ", "=", " ", "F", "F", "F", "F">>, 65535),
     Records(<<"P", "C", " ", "=", " ", "-", "0", "0", "1">>, -1),
     Silent(<<>>)}

\* First lines of a SpecEmu log: a register line.
SpecEmuHeaders ==
    {Silent(<<"P", "C", ":", "0", "0", "0", "3">>)}

\* Lines of a SpecEmu log: four hex digits and an instruction, or a register line.
SpecEmuLines ==
    {Records(<<"0", "0", "0", "3", " ", "N", "O", "P">>, 3),
     Records(<<"0", "0", "0", "1", " ", "R", "E", "T">>, 1),
     Records(<<"F", "F", "F", "F", " ", "N", "O", "P">>, 65535),
     Records(<<"-", "0", "0", "1", " ", "N", "O", "P">>, -1),
     Silent(<<"I", "X", ":", "0", "0", "0", "0">>),
     Silent(<<"A", "F", ":", "0", "1", "0", "2">>),
     Silent(<<>>)}

\* First line of a Zero log with decimal addresses.
ZeroDecHeaders ==
    {Silent(<<"i", "n", " ", "d", "e", "c", "i", "m", "a", "l">>)}

\* Lines of such a log: the address, a TAB and the instruction.
ZeroDecLines ==
    {Records(<<"3", "\t", "N", "O", "P">>, 3),
     Records(<<"1", "\t", "R", "E", "T">>, 1),
     Records(<<"6", "5", "5", "3", "5", "\t", "N", "O", "P">>, 65535),
     Records(<<"6", "5", "5", "3", "6", "\t", "N", "O", "P">>, 65536),
     Records(<<"2", "\t">>, 2),
     Silent(<<>>)}

\* First line of a Zero log with hexadecimal addresses.
ZeroHexHeaders ==
    {Silent(<<"h", "e", "x", "a", "d", "e", "c", "i", "m", "a", "l">>)}

\* Lines of such a log.
ZeroHexLines ==
    {Records(<<"3", "\t", "N", "O", "P">>, 3),
     Records(<<"1", "\t", "R", "E", "T">>, 1),
     Records(<<"F", "F", "F", "F", "\t", "N", "O", "P">>, 65535),
     Records(<<"1", "0", "0", "0", "0", "\t", "N", "O", "P">>, 65536),
     Records(<<"2", "\t">>, 2),
     Silent(<<>>)}

\* First lines of a file in no supported format.
OtherHeaders ==
    {Silent(<<"Z", "8", "0", " ", "l", "o", "g">>),
     Silent(<<"0", "0", "0", "3", " ", "N", "O", "P">>)}

\* The characters str.strip() removes.
Whitespace == {" ", "\t"}

RECURSIVE lstrip(_)
lstrip(s) == IF s # <<>> /\ Head(s) \in Whitespace THEN lstrip(Tail(s)) ELSE s

RECURSIVE rstrip(_)
rstrip(s) == IF s # <<>> /\ s[Len(s)] \in Whitespace
             THEN rstrip(SubSeq(s, 1, Len(s) - 1)) ELSE s

\* s.strip()
strip(s) == rstrip(lstrip(s))

\* s.startswith(p) and s.endswith(p)
startswith(s, p) == Len(s) >= Len(p) /\ SubSeq(s, 1, Len(p)) = p
endswith(s, p) == Len(s) >= Len(p) /\ SubSeq(s, Len(s) - Len(p) + 1, Len(s)) = p

\* s.find(c): the index, from 0, of the first c in s, or -1
find(s, c) == IF \E i \in 1..Len(s) : s[i] = c
              THEN Min({i \in 1..Len(s) : s[i] = c}) - 1 ELSE -1

\* s[b:e] for b >= 0: a negative e counts from the end of s
StrSlice(s, b, e) ==
    LET hi == IF e < 0 THEN MaxOf(Len(s) + e, 0) ELSE MinOf(e, Len(s))
    IN  IF hi <= b THEN <<>> ELSE SubSeq(s, b + 1, hi)

HexChars == <<"0", "1", "2", "3", "4", "5", "6", "7", "8", "9",
              "A", "B", "C", "D", "E", "F">>
LowerHexChars == <<"0", "1", "2", "3", "4", "5", "6", "7", "8", "9",
                   "a", "b", "c", "d", "e", "f">>

\* The value of a character as a digit, or 36 if it is no digit.
HexValue(c) == IF \E d \in 1..16 : HexChars[d] = c
               THEN (CHOOSE d \in 1..16 : HexChars[d] = c) - 1
               ELSE IF \E d \in 1..16 : LowerHexChars[d] = c
               THEN (CHOOSE d \in 1..16 : LowerHexChars[d] = c) - 1
               ELSE 36

RECURSIVE PlaceValue(_, _)
PlaceValue(s, base) ==
    IF s = <<>> THEN 0
    ELSE base * PlaceValue(SubSeq(s, 1, Len(s) - 1), base) + HexValue(s[Len(s)])

\* int(s, base) for base 10 or 16: surrounding whitespace, a sign, the prefix
\* 0x when the base is 16, then one or more digits of the base; ok is FALSE
\* where Python raises ValueError.
int(s, base) ==
    LET t == strip(s)
        signed == t # <<>> /\ t[1] \in {"-", "+"}
        u == IF signed THEN Tail(t) ELSE t
        v == IF base = 16 /\ Len(u) >= 2 /\ u[1] = "0" /\ u[2] \in {"x", "X"}
             THEN SubSeq(u, 3, Len(u)) ELSE u
        ok == v # <<>> /\ \A i \in 1..Len(v) : HexValue(v[i]) < base
        n == PlaceValue(v, base)
    IN  [ok |-> ok, value |-> IF ~ok THEN 0 ELSE IF t[1] = "-" THEN 0 - n ELSE n]

\* Lines 125-144: the format the first non-empty line announces.
LogFormat(s_line) ==
    IF startswith(s_line, <<"0", "x">>)
    THEN [name |-> "Fuse", base |-> 16, rewind |-> TRUE, ignore |-> {}]
    ELSE IF startswith(s_line, <<"P", "C", " ", "=", " ">>)
    THEN [name |-> "Spud", base |-> 16, rewind |-> TRUE, ignore |-> {}]
    ELSE IF startswith(s_line, <<"P", "C", ":">>)
    THEN [name |-> "SpecEmu", base |-> 16, rewind |-> FALSE,
          ignore |-> {<<"P", "C", ":">>, <<"I", "X", ":">>, <<"H", "L", ":">>,
                      <<"D", "E", ":">>, <<"B", "C", ":">>, <<"A", "F", ":">>}]
    ELSE IF endswith(s_line, <<"d", "e", "c", "i", "m", "a", "l">>)
    THEN [name |-> "Zero", rewind |-> FALSE, ignore |-> {},
          base |-> IF endswith(s_line, <<"i", "n", " ", "d", "e", "c", "i", "m", "a", "l">>)
                   THEN 10 ELSE 16]
    ELSE [name |-> "none", base |-> 16, rewind |-> TRUE, ignore |-> {}]

\* address_f(s_line) of each format
address_f(fmt, s_line) ==
    CASE fmt.name = "Fuse" -> StrSlice(s_line, 2, 6)
      [] fmt.name = "Spud" -> StrSlice(s_line, 5, 9)
      [] fmt.name = "SpecEmu" -> StrSlice(s_line, 0, 4)
      [] OTHER -> StrSlice(s_line, 0, find(s_line, "\t"))

\* The loop of lines 150-172 over the lines ls still to read, with the set
\* of addresses collected so far.
RECURSIVE ScanLines(_, _, _, _, _)
ScanLines(ls, fmt, s, e, addresses) ==
    IF ls = <<>> THEN [raised |-> "none", addresses |-> Sorted(addresses)]
    ELSE LET s_line == strip(Head(ls))
             address_str == address_f(fmt, s_line)
             parsed == int(address_str, fmt.base)
             addr == parsed.value
         IN  IF s_line = <<>> \/ address_str = <<>>
             THEN ScanLines(Tail(ls), fmt, s, e, addresses)
             ELSE IF ~parsed.ok
             THEN IF \E p \in fmt.ignore : startswith(s_line, p)
                  THEN ScanLines(Tail(ls), fmt, s, e, addresses)
                  ELSE [raised |-> "CodeMapError", addresses |-> <<>>]
             ELSE IF addr < 0 \/ addr > 65535
             THEN [raised |-> "CodeMapError", addresses |-> <<>>]
             ELSE ScanLines(Tail(ls), fmt, s, e,
                            IF s <= addr /\ addr < e
                            THEN addresses \cup {addr} ELSE addresses)

\* _get_addresses(f, fname, size, start, end) for the lines of f
_get_addresses(lines, s, e) ==
    LET nonblank == {i \in 1..Len(lines) : strip(lines[i]) # <<>>}
        first == IF nonblank = {} THEN 0 ELSE Min(nonblank)
        s_line == IF first = 0 THEN <<>> ELSE strip(lines[first])
        fmt == LogFormat(s_line)
        rest == IF fmt.rewind THEN lines ELSE SubSeq(lines, first + 1, Len(lines))
    IN  IF fmt.name = "none" THEN [raised |-> "CodeMapError", addresses |-> <<>>]
        ELSE ScanLines(rest, fmt, s, e, {})

\* b & (1 << i) after i shifts of lines 75-79
BitSet(b, i) == (b \div (2 ^ i)) % 2 = 1

\* Lines 72-79: the Z80 map. The bytes data[start//8:end//8+1] are taken in
\* order and their bits from bit 0 up, as 'address' counts up from
\* start & 65528 (start less its last three bits, for a start below 65536).
Z80Map(f, s, e) ==
    LET first == s \div 8
        final == MinOf(e \div 8, f.size - 1)
        hits == {h \in (DOMAIN f.data) \X (0..7) :
                    /\ first <= h[1] /\ h[1] <= final
                    /\ BitSet(f.data[h[1]], h[2])
                    /\ s <= (s - (s % 8)) + 8 * (h[1] - first) + h[2]
                    /\ (s - (s % 8)) + 8 * (h[1] - first) + h[2] < e}
        steps == Sorted({8 * (h[1] - first) + h[2] : h \in hits})
    IN  [k \in 1..Len(steps) |-> (s - (s % 8)) + steps[k]]

\* Lines 83-86: the SpecEmu map, one byte for each address.
SpecEmuMap(f, s, e) ==
    Sorted({a \in DOMAIN f.data : s <= a /\ a < e /\ f.data[a] % 2 = 1})


\* The body of a log holds at most MaxLogLines lines after its first line.
Bodies(lines) == UNION {[1..n -> lines] : n \in 0..MaxLogLines}

\* os.path.getsize of a text file: its characters and one newline a line.
RECURSIVE FileSize(_)
FileSize(lines) == IF lines = <<>> THEN 0
                   ELSE Len(Head(lines).text) + 1 + FileSize(Tail(lines))

\* The logs written in one format: an optional blank line, a first line and
\* a body.
LogFiles(format, headers, lines) ==
    {[size |-> FileSize(blank \o <<h>> \o body), data |-> <<>>,
      lines |-> blank \o <<h>> \o body, format |-> format, marked |-> {}] :
        blank \in {<<>>, <<Silent(<<>>)>>}, h \in headers, body \in Bodies(lines)}

\* The addresses a bitmap may mark as executed.
MapAddresses == {0, 1, 3, 7, 8, 10, 65535}

\* A Z80 map of 8192 bytes that marks the addresses of A: bit a % 8 of byte
\* a // 8 is set for each a in A (bytes not stored are zero).
Z80File(A) ==
    [size |-> 8192, lines |-> <<>>, format |-> "Z80 map", marked |-> A,
     data |-> [b \in {a \div 8 : a \in A} |->
                 LET bits == {a % 8 : a \in {x \in A : x \div 8 = b}}
                     sum[i \in 0..8] == IF i = 0 THEN 0
                                        ELSE sum[i - 1] + IF (i - 1) \in bits THEN 2 ^ (i - 1) ELSE 0
                 IN  sum[8]]]

\* A SpecEmu map of 65536 bytes that marks the addresses of A: bit 0 of byte
\* a is set for each a in A, and other bits are set here and there.
SpecEmuFile(A) ==
    [size |-> 65536, lines |-> <<>>, format |-> "SpecEmu map", marked |-> A,
     data |-> [a \in MapAddresses |-> IF a \in A THEN 129 ELSE 2]]

\* The code map files read: bitmaps, logs in each text format, and files in
\* no format at all (empty, blank, or with a first line that says nothing).
MapFiles ==
    {Z80File(A) : A \in SUBSET MapAddresses}
    \cup {SpecEmuFile(A) : A \in SUBSET MapAddresses}
    \cup LogFiles("Fuse", {l \in FuseLines : l.text # <<>>}, FuseLines)
    \cup LogFiles("Spud", {l \in SpudLines : l.text # <<>>}, SpudLines)
    \cup LogFiles("SpecEmu", SpecEmuHeaders, SpecEmuLines)
    \cup LogFiles("Zero", ZeroDecHeaders, ZeroDecLines)
    \cup LogFiles("Zero", ZeroHexHeaders, ZeroHexLines)
    \cup LogFiles("none", OtherHeaders, FuseLines)
    \cup {[size |-> n, data |-> <<>>, lines |-> [i \in 1..n |-> Silent(<<>>)],
           format |-> "none", marked |-> {}] : n \in 0..1}

\* _get_code_blocks is about to read a code map file for a range of addresses.
InitCodeMap ==
    /\ NoBinWriter
    /\ snapshot = EmptySnapshot
    /\ start \in {0, 2, 9}
    /\ end \in {4, 12, 65536}
    /\ start < end
    /\ code_map = NoCodeMap
    /\ cpc = "read"
    /\ ctls = <<>>
    /\ disassembly = NoDisassembly
    /\ phase = 0
    /\ raised = "none"
    /\ results = <<>>
    /\ classified = <<>>
    /\ map_file \in MapFiles
    /\ executed = <<>>
    /\ FinalIdle
    /\ CommentIdle
    /\ CallIdle

\* Lines 68-79 of _get_code_blocks: a file of 8192 bytes is a Z80 map.
ReadZ80Map ==
    /\ cpc = "read"
    /\ map_file.size = 8192
    /\ executed' = Z80Map(map_file, start, end)
    /\ cpc' = "listed"
    /\ UNCHANGED <<bwvars, results, classified, map_file, finalvars, commentvars, callvars, code_map, ctls,
                   disassembly, phase, raised>>

\* Lines 80-86: a file of 65536 bytes is a SpecEmu map.
ReadSpecEmuMap ==
    /\ cpc = "read"
    /\ map_file.size = 65536
    /\ executed' = SpecEmuMap(map_file, start, end)
    /\ cpc' = "listed"
    /\ UNCHANGED <<bwvars, results, classified, map_file, finalvars, commentvars, callvars, code_map, ctls,
                   disassembly, phase, raised>>

\* Lines 87-95: any other file is read as a log by _get_addresses.
ReadLog ==
    /\ cpc = "read"
    /\ map_file.size \notin {8192, 65536}
    /\ LET r == _get_addresses([i \in 1..Len(map_file.lines) |-> map_file.lines[i].text],
                               start, end)
       IN  /\ executed' = r.addresses
           /\ raised' = r.raised
           /\ cpc' = IF r.raised # "none" THEN "raised" ELSE "listed"
    /\ UNCHANGED <<bwvars, results, classified, map_file, finalvars, commentvars, callvars, code_map, ctls,
                   disassembly, phase>>

NextCodeMap ==
    \/ ReadZ80Map
    \/ ReadSpecEmuMap
    \/ ReadLog

SpecCodeMap == InitCodeMap /\ [][NextCodeMap]_vars

\* The addresses a code map file was written to record as executed.
MarkedExecuted(f) ==
    f.marked \cup {f.lines[i].address : i \in {j \in 1..Len(f.lines) : f.lines[j].records}}

\* C14: once _get_code_blocks has read a code map file in a supported
\* format, the addresses it lists are strictly ascending and are exactly the
\* addresses the file records as executed that lie in [start, end); a log
\* whose first non-empty line announces no known format, and a log that
\* holds an address outside 0..65535, raise CodeMapError instead.
C14_CodeMapReader ==
    (map_file # NoFile /\ cpc # "read") =>
        IF map_file.format = "none" \/ \E a \in MarkedExecuted(map_file) : a \notin 0..65535
        THEN raised = "CodeMapError"
        ELSE /\ raised = "none"
             /\ \A i \in 1..(Len(executed) - 1) : executed[i] < executed[i + 1]
             /\ {executed[i] : i \in 1..Len(executed)}
                    = {a \in MarkedExecuted(map_file) : start <= a /\ a < end}

\* ------------------------------------------------ the final disassembly
\* SkoolWriter.__init__ builds the Disassembly of the whole ctl map with
\* final=True: the entries are created and linked, and then
\* _calculate_references fills the referrers of every instruction.

\* The bytes of the snapshot then: NOP, JR d, and the displacement -2.
RefBytes == {0, 24, 254}

\* The ctl of the one sub-block of a block: a 'C' sub-block makes code of an
\* entry of any ctl.
SubCtl(p, block) == IF block.start \in p.code THEN "c" ELSE block.ctl

\* The instructions of the entry e (lines 616-645).
FinalInstructions(p, e) ==
    IF SubCtl(p, [ctl |-> e.ctl, start |-> e.address]) = "c"
    THEN disassemble(e.address, e.end)
    ELSE defb_range(e.address, e.end)

\* instruction.label after _add_instructions: the label of an @label
\* directive (empty for '@label='), or None, written as the word.
Label(p, a) == IF a \in DOMAIN p.labels THEN p.labels[a] ELSE <<"N", "o", "n", "e">>

\* The keys of self.instructions.
Indexed(p, es) ==
    UNION {{FinalInstructions(p, es[k])[i].address :
                i \in 1..Len(FinalInstructions(p, es[k]))} : k \in 1..Len(es)}

\* callee.entry for the instruction at address a.
Owner(p, es, a) ==
    CHOOSE k \in 1..Len(es) :
        \E i \in 1..Len(FinalInstructions(p, es[k])) : FinalInstructions(p, es[k])[i].address = a

\* The operation is a branch of entry e to address a (lines 691-695).
BranchesTo(op, a) ==
    /\ Prefix(op, 2) \in {<<"D", "J">>, <<"J", "R">>, <<"J", "P">>, <<"C", "A">>, <<"R", "S">>}
    /\ BranchTarget(op) = a

\* instruction.add_referrer(entry)
add_referrer(refs, entry) ==
    IF \E n \in 1..Len(refs) : refs[n] = entry THEN refs ELSE Append(refs, entry)

\* The loop of lines 691-697 over the instructions of entry j, for the
\* referrers refs of the instruction at address a.
RECURSIVE ReferInstructions_target(_, _, _, _, _, _)
ReferInstructions_target(p, es, j, is, a, refs) ==
    IF is = <<>> THEN refs
    ELSE ReferInstructions_target(p, es, j, Tail(is), a,
            IF /\ BranchesTo(Head(is).operation, a)
               /\ (es[Owner(p, es, a)].ctl # "u" \/ Owner(p, es, a) = j)
               /\ Label(p, a) # <<>>
            THEN add_referrer(refs, es[j].address) ELSE refs)

RECURSIVE ReferInstructions(_, _, _, _, _, _)
ReferInstructions(p, es, j, is, a, refs) ==
    IF is = <<>> THEN refs
    ELSE ReferInstructions(p, es, j, Tail(is), a,
            IF /\ BranchesTo(Head(is).operation, a)
               /\ (es[j].ctl # "u" \/ Owner(p, es, a) = j)
               /\ Label(p, a) # <<>>
            THEN add_referrer(refs, es[j].address) ELSE refs)

\* The loop of lines 689-697 over the entries from the j-th on.
RECURSIVE ReferEntries(_, _, _, _, _)
ReferEntries(p, es, j, a, refs) ==
    IF j > Len(es) THEN refs
    ELSE ReferEntries(p, es, j + 1, a,
                      ReferInstructions(p, es, j, FinalInstructions(p, es[j]), a, refs))

\* _calculate_references(): the referrers of every instruction, as the
\* addresses of the entries, from empty lists (lines 686-688).
_calculate_references(p, es) ==
    [a \in Indexed(p, es) |-> ReferEntries(p, es, 1, a, <<>>)]

\* The ctl maps over the MemSize bytes: entries of code and unused entries,
\* closed by the key MemSize.
UserCtls ==
    {c \in UNION {[K \cup {0, MemSize} -> {"c", "u", "i"}] : K \in SUBSET (1..(MemSize - 1))} :
        /\ c[MemSize] = "i"
        /\ \A k \in DOMAIN c : k < MemSize => c[k] # "i"}

\* The ctl parsers: a ctl map, 'C' sub-blocks in some of its 'u' entries,
\* and at most MaxLabels @label directives.
CtlParsers ==
    {[ctls |-> c, code |-> u, labels |-> l] :
        c \in UserCtls,
        u \in SUBSET (0..(MemSize - 1)),
        l \in UNION {[A -> {<<>>, <<"L">>}] :
                        A \in {X \in SUBSET (0..(MemSize - 1)) : Cardinality(X) <= MaxLabels}}}

InitFinal ==
    /\ NoBinWriter
    /\ \E bytes \in [0..(MemSize - 1) -> RefBytes] :
          snapshot = [len |-> SNAPSHOT_SIZE, mem |-> bytes]
    /\ start = 0
    /\ end = MemSize
    /\ code_map = NoCodeMap
    /\ cpc = "final"
    /\ ctls = <<>>
    /\ disassembly = NoDisassembly
    /\ phase = 0
    /\ raised = "none"
    /\ results = <<>>
    /\ classified = <<>>
    /\ ReaderIdle
    /\ CommentIdle
    /\ CallIdle
    /\ ctl_parser \in {p \in CtlParsers : \A a \in p.code : a \in DOMAIN p.ctls /\ p.ctls[a] = "u"}
    /\ referrers = <<>>

\* Disassembly(snapshot, ctl_parser, config, True, ...)
FinalBuild ==
    /\ cpc = "final"
    /\ disassembly' = build(NewDisassembly, ctl_parser.ctls)
    /\ referrers' = _calculate_references(ctl_parser, disassembly'.entries)
    /\ cpc' = "built"
    /\ UNCHANGED <<bwvars, results, classified, readvars, commentvars, callvars, ctl_parser,
                   code_map, ctls, phase, raised>>

NextFinal == FinalBuild

SpecFinal == InitFinal /\ [][NextFinal]_vars

\* An instruction of entry j of the final disassembly branches to the
\* indexed address a.
Refers(j, a) ==
    /\ a \in DOMAIN referrers
    /\ \E i \in 1..Len(FinalInstructions(ctl_parser, disassembly.entries[j])) :
          BranchesTo(FinalInstructions(ctl_parser, disassembly.entries[j])[i].operation, a)

IsReferrer(j, a) == \E n \in 1..Len(referrers[a]) : referrers[a][n] = disassembly.entries[j].address

\* Every referrer is an entry of the disassembly.
ReferrersAreEntries ==
    \A a \in DOMAIN referrers : \A n \in 1..Len(referrers[a]) :
        \E j \in 1..Len(disassembly.entries) : disassembly.entries[j].address = referrers[a][n]

\* C15: after the final build, an entry with a branch to an indexed address
\* is a referrer of the instruction there exactly when the entry of that
\* instruction is not 'u' (or is the branching entry itself) and the
\* instruction's label is not the empty string; and every referrer is an
\* entry of the disassembly.
C15_ReferrerRule ==
    cpc = "built" =>
        /\ \A j \in 1..Len(disassembly.entries) : \A a \in DOMAIN referrers :
              Refers(j, a) =>
                  (IsReferrer(j, a) <=>
                      /\ \/ disassembly.entries[Owner(ctl_parser, disassembly.entries, a)].ctl # "u"
                         \/ Owner(ctl_parser, disassembly.entries, a) = j
                      /\ Label(ctl_parser, a) # <<>>)
        /\ ReferrersAreEntries

\* C15, amended: after the final build, an entry with a branch to an indexed
\* address is a referrer of the instruction there exactly when the branching
\* entry is not 'u' (or holds the instruction itself) and the instruction's
\* label is not the empty string; and every referrer is an entry of the
\* disassembly.
C15_ReferrerRuleOfBranchingEntry ==
    cpc = "built" =>
        /\ \A j \in 1..Len(disassembly.entries) : \A a \in DOMAIN referrers :
              Refers(j, a) =>
                  (IsReferrer(j, a) <=>
                      /\ \/ disassembly.entries[j].ctl # "u"
                         \/ Owner(ctl_parser, disassembly.entries, a) = j
                      /\ Label(ctl_parser, a) # <<>>)
        /\ ReferrersAreEntries

\* A 'u' entry branches into an entry of code and is no referrer of the
\* instruction there, which has a label that is not empty.
C15_Witness ==
    /\ cpc = "built"
    /\ \E j \in 1..Len(disassembly.entries), a \in DOMAIN referrers :
          /\ Refers(j, a) /\ disassembly.entries[j].ctl = "u" /\ ~IsReferrer(j, a)
          /\ disassembly.entries[Owner(ctl_parser, disassembly.entries, a)].ctl = "c"
          /\ Label(ctl_parser, a) = <<"L">>

\* ------------------------------------------------- the block comments
\* SkoolWriter._format_block_comment(block, width) for a block of rowspan
\* instructions with a comment of at most MaxCommentLen characters.

\* s.count(c)
count(s, c) == Cardinality({i \in 1..Len(s) : s[i] = c})

\* c * n
Times(c, n) == [i \in 1..n |-> c]

\* The words of a text: its runs of characters other than spaces.
RECURSIVE Words(_, _)
Words(s, word) ==
    IF s = <<>> THEN IF word = <<>> THEN <<>> ELSE <<word>>
    ELSE IF Head(s) = " "
    THEN (IF word = <<>> THEN <<>> ELSE <<word>>) \o Words(Tail(s), <<>>)
    ELSE Words(Tail(s), Append(word, Head(s)))

\* The lines that hold the words in order, each line as long as the width
\* allows; a word longer than the width has a line of its own.
RECURSIVE Fill(_, _, _, _)
Fill(words, width, lines, current) ==
    IF words = <<>> THEN IF current = <<>> THEN lines ELSE Append(lines, current)
    ELSE IF current = <<>> THEN Fill(Tail(words), width, lines, Head(words))
    ELSE IF Len(current) + 1 + Len(Head(words)) <= width
    THEN Fill(Tail(words), width, lines, current \o <<" ">> \o Head(words))
    ELSE Fill(Tail(words), width, Append(lines, current), Head(words))

\* wrap(text, width) for a text without #TABLE, #UDGTABLE or #LIST markup
wrap(text, width) == Fill(Words(text, <<>>), width, <<>>, <<>>)

\* Lines 805-808: the braces that open the frame.
Opening_single(multi_line, balance) == <<"{">>

Opening(multi_line, balance) ==
    IF multi_line /\ balance < 0 THEN Times("{", 1 - balance) ELSE <<"{">>

\* Line 811: the braces that close the frame.
Closing(balance) == Times("}", MaxOf(1 + balance, 1))

\* Lines 814-821: the closing braces are added to the wrapped lines.
Close(lines, rowspan, closing, width) ==
    IF Len(lines) < rowspan
    THEN lines \o Times(<<>>, rowspan - Len(lines) - 1) \o <<lstrip(closing)>>
    ELSE IF Len(lines[Len(lines)]) + Len(closing) <= width
    THEN [lines EXCEPT ![Len(lines)] = @ \o closing]
    ELSE Append(lines, lstrip(closing))

_format_block_comment(block, width) ==
    LET rowspan == block.rowspan
        multi_line == rowspan > 1 /\ block.comment # <<>>
        comment == IF multi_line /\ \A i \in 1..Len(block.comment) : block.comment[i] = "."
                   THEN Tail(block.comment) ELSE block.comment
        balance == count(comment, "{") - count(comment, "}")
        opening == Opening(multi_line, balance)
                      \o (IF startswith(comment, <<"{">>) THEN <<" ">> ELSE <<>>)
        closing == (IF endswith(comment, <<"}">>) THEN <<" ">> ELSE <<>>) \o Closing(balance)
    IN  IF multi_line \/ startswith(comment, <<"{">>)
        THEN Close(wrap(opening \o comment, width), rowspan, closing, width)
        ELSE wrap(comment, width)

\* The characters of a comment.
CommentChars == {"{", "}", ".", " ", "a"}

\* The widths to format for.
Widths == {2, 4, 8}

InitComment ==
    /\ NoBinWriter
    /\ snapshot = EmptySnapshot
    /\ start = 0
    /\ end = 65536
    /\ code_map = NoCodeMap
    /\ cpc = "format"
    /\ ctls = <<>>
    /\ disassembly = NoDisassembly
    /\ phase = 0
    /\ raised = "none"
    /\ results = <<>>
    /\ classified = <<>>
    /\ ReaderIdle
    /\ FinalIdle
    /\ CallIdle
    /\ block_comment \in {[rowspan |-> r, comment |-> c, width |-> w] :
                            r \in 1..MaxRowspan,
                            c \in UNION {[1..n -> CommentChars] : n \in 0..MaxCommentLen},
                            w \in Widths}
    /\ comment_lines = <<>>

FormatBlockComment ==
    /\ cpc = "format"
    /\ comment_lines' = _format_block_comment(block_comment, block_comment.width)
    /\ cpc' = "formatted"
    /\ UNCHANGED <<bwvars, results, classified, readvars, finalvars, callvars, block_comment,
                   code_map, ctls, disassembly, phase, raised>>

NextComment == FormatBlockComment

SpecComment == InitComment /\ [][NextComment]_vars

\* The block has several instructions and a comment.
MultiLine == block_comment.rowspan > 1 /\ block_comment.comment # <<>>

\* _format_block_comment adds a brace frame.
Framed == MultiLine \/ startswith(block_comment.comment, <<"{">>)

RECURSIVE CountAll(_, _)
CountAll(lines, c) == IF lines = <<>> THEN 0 ELSE count(Head(lines), c) + CountAll(Tail(lines), c)

\* C16: whenever _format_block_comment adds a brace frame, the comment
\* lines it returns hold as many '{' as '}'.
C16_MarkupBalance ==
    (cpc = "formatted" /\ Framed) => CountAll(comment_lines, "{") = CountAll(comment_lines, "}")

\* C16, amended: whenever _format_block_comment adds a brace frame to a
\* multi-line comment, or to a comment that starts with '{' and has no more
\* '}' than '{', the comment lines it returns hold as many '{' as '}'.
C16_MarkupBalanceMultiLine ==
    (/\ cpc = "formatted"
     /\ Framed
     /\ \/ MultiLine
        \/ count(block_comment.comment, "{") >= count(block_comment.comment, "}"))
        => CountAll(comment_lines, "{") = CountAll(comment_lines, "}")

\* A multi-line comment with more '}' than '{' has been framed, over
\* several lines.
C16_Witness ==
    /\ cpc = "formatted"
    /\ MultiLine
    /\ count(block_comment.comment, "{") < count(block_comment.comment, "}")
    /\ count(block_comment.comment, "{") > 0
    /\ Len(comment_lines) > block_comment.rowspan

\* C17: after every build of the disassembly, also one that reuses cached
\* entries, each entry but the last has the entry after it as its next
\* entry, and the last entry has none.
C17_EntryLinking ==
    disassembly.built =>
        LET es == disassembly.entries
        IN  /\ \A i \in 1..(Len(es) - 1) : es[i].next = es[i + 1].address
            /\ Len(es) > 0 => es[Len(es)].next = None

\* The classifier has joined the blocks of a code map: its last build, of
\* three entries or more, took from the cache the entries that the builds of
\* entry discovery had left there and that remove_entry had not dropped since.
C17_Witness ==
    /\ disassembly.built
    /\ code_map.file
    /\ cpc = "text"
    /\ Len(disassembly.entries) >= 3

\* ------------------------------------------------- the order of emission
\* The writer in every pair of modes, with the default options, reading
\* instruction lines, sub/fix directives and @org directives.
NextAll ==
    \/ ParseInstruction
    \/ ParseSubFixDirective
    \/ ParseOrgDirective
    \/ EndEntry
    \/ EndOfFile
    \/ Relocate
    \/ Write

SpecAll == Init /\ [][NextAll]_vars

\* The real addresses of the instructions grow along the sequence.
Increasing(is) == \A k \in 1..(Len(is) - 1) : is[k].real_address < is[k + 1].real_address

\* The instructions still to poke are the last ones in reading order.
IsSuffix(s, t) == Len(s) <= Len(t) /\ s = SubSeq(t, Len(t) - Len(s) + 1, Len(t))
PokeOrder == pc = "relocate" => IsSuffix(to_poke, AllInstructions(entries))

\* The step reads an instruction line, and the instructions it records.
InstructionRead == line_no' = line_no + 1 /\ in_block' /\ directives_read' = directives_read
Added == SubSeq(Recorded', Len(Recorded) + 1, Len(Recorded'))

DirectiveRead == directives_read' = directives_read + 1

\* The sizes of the first k operations that a line was given sizes for.
RECURSIVE SizedSum(_, _)
SizedSum(sized, k) == IF k = 0 THEN 0 ELSE sized[k].size + SizedSum(sized, k - 1)

\* C19: @org=ADDR sets the running address to ADDR and a bare @org clears
\* it; no other directive and no end of an entry changes it; an instruction
\* line is placed at the running address whatever address it declares, or at
\* its declared address when there is no running address, each of its
\* operations following the one before, and the running address is then the
\* end of its last operation.
C19_RunningAddress ==
    [][/\ (DirectiveRead /\ line'.kind = "org" /\ line'.org # ValueError) => address' = line'.org
       /\ (DirectiveRead /\ line'.kind # "org") => address' = address
       /\ (line_no' = line_no + 1 /\ ~in_block') => address' = address
       /\ (InstructionRead /\ last'.kind = "instruction") =>
            LET placed == IF address = None THEN last'.skool_address ELSE address
            IN  /\ \A k \in 1..Len(last'.sized) :
                      last'.sized[k].address = placed + SizedSum(last'.sized, k - 1)
                /\ ~last'.failed => address' = placed + SizedSum(last'.sized, Len(last'.sized))]_vars

\* After an @org directive, a line that declares 65535 was placed at 65534.
C19_Witness ==
    /\ last.kind = "instruction"
    /\ last.address_before = 65534
    /\ last.skool_address = 65535
    /\ last.sized # <<>>
    /\ last.sized[1].address = 65534
    /\ address = 65534 + SizedSum(last.sized, Len(last.sized))
    /\ entries # <<>>

\* ------------------------------------------------- the address map
\* The sizes of the operations that a line prepends.
RECURSIVE PrependedSum(_)
PrependedSum(sized) ==
    IF sized = <<>> THEN 0
    ELSE (IF Head(sized).marker = ">" THEN Head(sized).size ELSE 0) + PrependedSum(Tail(sized))

\* C20: address_map[s] is written by the first instruction line that
\* declares s, with the running address reached after the operations the
\* line prepends, also when the line's own operation is suppressed; nothing
\* else adds a key, and no step changes a key once it is written.
C20_FirstWinner ==
    [][/\ \A s \in DOMAIN address_map :
             s \in DOMAIN address_map' /\ address_map'[s] = address_map[s]
       /\ (InstructionRead /\ last'.kind = "instruction")
             => DOMAIN address_map' \subseteq DOMAIN address_map \cup {last'.skool_address}
       /\ ~(InstructionRead /\ last'.kind = "instruction") => address_map' = address_map
       /\ (InstructionRead /\ last'.kind = "instruction" /\ ~last'.failed
             /\ last'.skool_address \notin DOMAIN address_map) =>
            /\ last'.skool_address \in DOMAIN address_map'
            /\ address_map'[last'.skool_address] = Str(last'.main_address)
            /\ last'.main_address
                  = (IF address = None THEN last'.skool_address ELSE address)
                        + PrependedSum(last'.sized)]_vars

\* A line with a prepended operation declared an address that a line before
\* it had declared, and the address map kept the address of the first.
C20_Witness ==
    /\ last.kind = "instruction"
    /\ ~last.failed
    /\ last.skool_address # None
    /\ last.sized # <<>>
    /\ last.sized[1].marker = ">"
    /\ address_map[last.skool_address] # Str(last.main_address)

\* ------------------------------------------------- the overwritten addresses
\* The addresses that the overwriting operations of the line l cover: each
\* operation's real address, moved by the distance between the address the
\* line declares and the real address of its first operation that is not
\* prepended.
OverwrittenBy(l) ==
    LET offset == l.skool_address - l.main_address
    IN  UNION {(l.sized[k].address + offset) .. (l.sized[k].address + offset + l.sized[k].size - 1) :
                 k \in {j \in 1..Len(l.sized) : l.sized[j].marker = "|"}}

\* C21: an instruction line that declares an address adds to the removed set
\* exactly the addresses its overwriting operations cover, each range being
\* the operation's real range moved by the line's offset; a line without an
\* overwriting operation adds nothing; a later line of the entry is
\* suppressed exactly when the address it declares is in the removed set, and
\* the end of the entry empties the set.
C21_OverwriteMarks ==
    [][/\ (InstructionRead /\ last'.kind = "instruction" /\ last'.skool_address # None)
             => removed' = removed \cup OverwrittenBy(last')
       /\ (InstructionRead /\ last'.kind = "instruction"
               /\ \A k \in 1..Len(last'.sized) : last'.sized[k].marker # "|")
             => removed' = removed
       /\ (InstructionRead /\ last'.kind = "instruction" /\ ~last'.failed)
             => (last'.emit_main <=> last'.skool_address \notin removed)
       /\ (line_no' = line_no + 1 /\ ~in_block') => removed' = {}]_vars

\* After one directive, the line at 65534 was given an overwriting operation
\* of two bytes, and the line that declares 65535 was suppressed.
C21_Witness ==
    /\ directives_read = 1
    /\ line_no = 3
    /\ \E k \in 1..Len(instructions) :
          /\ instructions[k].marker = "|"
          /\ instructions[k].address = 65534
          /\ instructions[k].real_address = 65534
    /\ last.kind = "instruction"
    /\ last.skool_address = 65535
    /\ ~last.emit_main
    /\ removed = {65534, 65535}

\* ------------------------------------------------- the directive lines
\* The writer with and without the data option, and with a range that leaves
\* out the addresses below 65535, reading every kind of line.
InitDirectives ==
    BinWriterInit({<<0, 0>>, <<1, 0>>, <<2, 2>>},
                  {<<DEFAULT_START, DEFAULT_END, FALSE>>,
                   <<DEFAULT_START, DEFAULT_END, TRUE>>,
                   <<65535, 65536, TRUE>>})

NextDirectives ==
    \/ ParseInstruction
    \/ ParseSubFixDirective
    \/ ParseOrgDirective
    \/ ParseOtherDirective
    \/ EndEntry
    \/ EndOfFile
    \/ Relocate
    \/ Write

SpecDirectives == InitDirectives /\ [][NextDirectives]_vars

\* The operations of the substitutions declared by the directives ds.
DeclaredOps(ds) == {ds[i].value.op : i \in 1..Len(ds)}

\* C22: a directive line leaves the recorded instructions, the entries, the
\* snapshot, base_address, end_address and address_map as they are, and
\* changes the running address only if it is an @org directive; what it
\* changes is among subs, keep, nowarn, data, removed and remote_entries.
\* Every instruction line that is parsed resets the substitutions, so the
\* operations a line is given are its own or come from the directives read
\* since the instruction line before it.
C22_DirectiveFrame ==
    [][/\ DirectiveRead =>
            /\ instructions' = instructions
            /\ entries' = entries
            /\ snapshot' = snapshot
            /\ base_address' = base_address
            /\ end_address' = end_address
            /\ address_map' = address_map
            /\ entry_ctl' = entry_ctl
            /\ to_poke' = to_poke
            /\ output' = output
            /\ Resolve(line').kind # "org" => address' = address
            /\ Resolve(line').kind = "org" =>
                  <<subs', keep', nowarn', data', removed', remote_entries'>>
                      = <<subs, keep, nowarn, data, removed, remote_entries>>
       /\ (InstructionRead /\ last'.kind = "instruction") =>
            /\ subs' = NoSubs
            /\ \A k \in 1..Len(last'.sized) :
                  last'.sized[k].operation \in {line'.op} \cup DeclaredOps(declared)]_vars

\* A substitution was used by the instruction line that followed it, and the
\* instruction line after that one was given its own operation only.
C22_Witness ==
    /\ line_no = 3
    /\ directives_read = 1
    /\ Len(instructions) = 2
    /\ instructions[1].operation = LD_A_5
    /\ instructions[1].address = 65534
    /\ instructions[2].operation = NOP
    /\ last.kind = "instruction"
    /\ last.line.op = NOP
    /\ last.declared = <<>>
    /\ subs = NoSubs

\* ------------------------------------------------- the classifier's loops
\* The positions of the loops that run until a pass changes nothing: phases
\* 2, 3 and 5 with a code map, the two joining loops without one, and the
\* loop of _analyse_blocks.
Loops == {"extend", "discover", "join", "overlap", "branch", "analyse"}

\* The step is a pass of a loop after which the loop goes on.
LoopGoesOn == cpc \in Loops /\ cpc' = cpc

\* The addresses that may be keys of the ctl map, and those that are not.
Beyond == end + 3
NotKeys(c) == (Beyond - start) - Cardinality(DOMAIN c)

\* The keys of one kind, and their distances from the far end put together.
KeysOf(c, kinds) == {a \in DOMAIN c : c[a] \in kinds}
RECURSIVE Distance(_)
Distance(ks) == IF ks = {} THEN 0
                ELSE (Beyond - Min(ks)) + Distance(ks \ {Min(ks)})

\* What a pass of the loop at position p uses up.  A pass that extends or
\* joins deletes a boundary and adds none before it; a pass of phase 3 makes
\* a key of an address or 'c' of a 'U'; a pass of _analyse_blocks makes a key
\* of an address, or moves a 'c' to a later key.
Variant(p, c) ==
    CASE p \in {"extend", "join", "overlap", "branch"} -> Distance(DOMAIN c)
      [] p = "discover" -> 2 * NotKeys(c) + Cardinality(KeysOf(c, {"U"}))
      [] p = "analyse" -> (Beyond - start + 1) * NotKeys(c) + Distance(KeysOf(c, {"c"}))
      [] OTHER -> 0

\* C23: every pass after which a loop of the classifier goes on has changed
\* the ctl map and used up some of the loop's variant, which is never
\* negative: no loop takes more passes than its variant allows, whatever the
\* snapshot, the range and the code map.
C23_LoopsTerminate ==
    [][LoopGoesOn => /\ ctls' # ctls
                     /\ Variant(cpc, ctls') < Variant(cpc, ctls)
                     /\ Variant(cpc, ctls') >= 0]_vars

\* The loop of _analyse_blocks goes on after a pass that found text.
C23_Witness ==
    /\ cpc = "analyse"
    /\ phase = 0
    /\ KeysOf(ctls, {"t"}) # {}

\* ------------------------------------- _is_terminal_instruction, on its own
\* The bytes of the instructions that the disassembler returns: the first
\* byte, or the byte after a prefix, decides how many bytes follow.
Operands == {0, 1, 24, 69, 201, 233}
\* NOP, LD B,C, HALT, RET NZ, RET Z, RET, RET C, JP (HL), EI
OneByte == {<<b>> : b \in {0, 65, 118, 192, 200, 201, 216, 233, 251}}
\* DJNZ d, JR d, JR NZ,d, JR Z,d, JR C,d, LD A,n, OUT (n),A
TwoBytes == {<<b, n>> : b \in {16, 24, 32, 40, 56, 62, 211}, n \in Operands}
\* LD BC,nn, JP NZ,nn, JP nn, CALL nn, JP C,nn
ThreeBytes == {<<b, n, m>> : b \in {1, 194, 195, 205, 218}, n \in Operands, m \in {0, 233}}
\* NEG, RETN, IM 0, RETI, the other RETN codes, IM 1, LDIR; LD (nn),BC and LD BC,(nn)
Extended == {<<237, b>> : b \in {68, 69, 70, 77, 85, 86, 93, 101, 109, 117, 125, 176}}
            \cup {<<237, b, n, m>> : b \in {67, 75}, n \in Operands, m \in {0, 233}}
\* INC IX, POP IX, PUSH IX, JP (IX); INC (IX+d); LD IX,nn; RLC (IX+d); and for IY
IndexOps == {<<p, b>> : p \in {221, 253}, b \in {35, 225, 229, 233}}
            \cup {<<p, 52, n>> : p \in {221, 253}, n \in Operands}
            \cup {<<p, 33, n, m>> : p \in {221, 253}, n \in Operands, m \in {0, 233}}
            \cup {<<p, 203, n, 6>> : p \in {221, 253}, n \in Operands}
InstructionBytes == OneByte \cup TwoBytes \cup ThreeBytes \cup Extended \cup IndexOps

\* _is_terminal_instruction is about to be called with an instruction.
InitTerminal ==
    /\ NoBinWriter
    /\ snapshot = EmptySnapshot
    /\ start = 0
    /\ end = 65536
    /\ code_map = NoCodeMap
    /\ cpc = "ask"
    /\ ctls = <<>>
    /\ disassembly = NoDisassembly
    /\ phase = 0
    /\ raised = "none"
    /\ results = <<>>
    /\ classified = <<>>
    /\ ReaderIdle
    /\ FinalIdle
    /\ CommentIdle
    /\ argument \in {[bytes |-> d] : d \in InstructionBytes}
    /\ returned = NoCall

\* The call of _is_terminal_instruction (lines 176-191).
IsTerminal ==
    /\ cpc = "ask"
    /\ returned' = [value |-> _is_terminal_instruction(argument)]
    /\ cpc' = "told"
    /\ UNCHANGED <<bwvars, results, classified, readvars, finalvars, commentvars, argument,
                   code_map, ctls, disassembly, phase, raised>>

NextTerminal == IsTerminal

SpecTerminal == InitTerminal /\ [][NextTerminal]_vars

\* The instructions that end a block: RET, JP nn, JP (HL), RETN and RETI,
\* JP (IX) and JP (IY), and JR d with a displacement that is not zero.
EndsABlock(d) ==
    \/ d = <<201>>
    \/ Len(d) = 3 /\ d[1] = 195
    \/ d = <<233>>
    \/ Len(d) = 2 /\ d[1] = 237 /\ d[2] \in {69, 77, 85, 93, 101, 109, 117, 125}
    \/ d \in {<<221, 233>>, <<253, 233>>}
    \/ Len(d) = 2 /\ d[1] = 24 /\ d[2] # 0

\* C24: _is_terminal_instruction returns true for RET, JP nn, JP (HL), the
\* two-byte RETN and RETI, JP (IX), JP (IY) and JR d with d not zero, and
\* false for every other instruction.
C24_TerminalPredicate ==
    cpc = "told" => returned.value = EndsABlock(argument.bytes)

\* JR with displacement 0 was found not to end a block.
C24_Witness ==
    /\ cpc = "told"
    /\ argument.bytes = <<24, 0>>
    /\ returned.value = FALSE


\* ======================================================================
\* _get_text_blocks, on its own
\* ======================================================================
\* The characters of a run: ',', '.', 'A' and 'B'.
RunChars == {44, 46, 65, 66}

\* The runs of up to MaxRun characters.
Runs == UNION {[1..n -> RunChars] : n \in 0..MaxRun}

\* _get_text_blocks is about to be called for a range that holds one run of
\* characters, from the first address of the range on, and zeroes after it.
InitRun ==
    /\ NoBinWriter
    /\ \E r \in Runs :
        snapshot = [len |-> SNAPSHOT_SIZE,
                    mem |-> [a \in RunBase..(RunBase + MaxRun) |->
                               IF a - RunBase < Len(r) THEN r[a - RunBase + 1] ELSE 0]]
    /\ start = RunBase
    /\ end = RunBase + MaxRun + 1
    /\ code_map = NoCodeMap
    /\ cpc = "scan"
    /\ ctls = <<>>
    /\ disassembly = NoDisassembly
    /\ phase = 0
    /\ raised = "none"
    /\ results = <<>>
    /\ classified = <<>>
    /\ ReaderIdle
    /\ FinalIdle
    /\ CommentIdle
    /\ argument = [start |-> start, end |-> end]
    /\ returned = NoCall

\* The call _get_text_blocks(snapshot, start, end) (lines 441-461).
GetTextBlocks ==
    /\ cpc = "scan"
    /\ returned' = [value |-> _get_text_blocks(argument.start, argument.end)]
    /\ cpc' = "scanned"
    /\ UNCHANGED <<bwvars, results, classified, readvars, finalvars, commentvars, argument,
                   code_map, ctls, disassembly, phase, raised>>

NextRun == GetTextBlocks

SpecRun == InitRun /\ [][NextRun]_vars

\* The run of characters that the range begins with, as a set of addresses.
TheRun == {a \in start..(end - 1) : \A x \in start..a : Peek(snapshot, x) \in CHARS}

\* The run is accepted: it is the one text block returned.
RunAccepted == returned.value = <<<<start, start + Cardinality(TheRun)>>>>

\* The ',' and '.' of the run, and its distinct characters with and without them.
RunPunctuation == Cardinality({a \in TheRun : Peek(snapshot, a) \in {44, 46}})
RunDistinct == Cardinality({Peek(snapshot, a) : a \in TheRun})
RunDistinctLetters == Cardinality({Peek(snapshot, a) : a \in TheRun} \ {44, 46})

TextBytes == {0, 65}

\* _get_text_blocks is about to be called for a range of TextSize bytes, or
\* one byte less at either side, at address 0 or at 40000.
InitText ==
    /\ NoBinWriter
    /\ \E base \in Bases, bytes \in [0..(TextSize - 1) -> TextBytes] :
        /\ snapshot = [len |-> SNAPSHOT_SIZE,
                       mem |-> [a \in base..(base + TextSize - 1) |-> bytes[a - base]]]
        /\ start \in {base, base + 1}
        /\ end \in {base + TextSize - 1, base + TextSize}
    /\ code_map = NoCodeMap
    /\ cpc = "scan"
    /\ ctls = <<>>
    /\ disassembly = NoDisassembly
    /\ phase = 0
    /\ raised = "none"
    /\ results = <<>>
    /\ classified = <<>>
    /\ ReaderIdle
    /\ FinalIdle
    /\ CommentIdle
    /\ argument = [start |-> start, end |-> end]
    /\ returned = NoCall

NextText == GetTextBlocks

SpecText == InitText /\ [][NextText]_vars

\* The maximal runs of characters of [start, end), as pairs <<first, end>>:
\* a run begins with a character that has none before it in the range, and
\* ends before the next byte that is no character, or with the range.
CandidateRuns ==
    {<<s, Min({e \in (s + 1)..end : e = end \/ Peek(snapshot, e) \notin CHARS})>> :
        s \in {a \in start..(end - 1) :
                 /\ Peek(snapshot, a) \in CHARS
                 /\ a = start \/ Peek(snapshot, a - 1) \notin CHARS}}

\* The text-run predicate, of the bytes of a run.
IsText(r) ==
    LET chars == {a \in r[1]..(r[2] - 1) : Peek(snapshot, a) \notin {44, 46}}
        length == r[2] - r[1]
    IN  /\ length >= 3
        /\ 4 * Cardinality({Peek(snapshot, a) : a \in chars}) >= length
        /\ 5 * (length - Cardinality(chars)) <= length

\* The runs that _check_text accepted: a run that begins at address 0 is
\* not given to it (line 456).
AcceptedRuns == {r \in CandidateRuns : r[1] # 0 /\ IsText(r)}

\* The run r lies in the text block b.
Within(r, b) == b[1] <= r[1] /\ r[2] <= b[2]

\* C26: an accepted run that starts no more than 8 bytes after the end of
\* the accepted run before it is merged with it, and no other is; so the
\* text blocks returned begin and end with accepted runs, hold every
\* accepted run, lie within [start, end) in ascending order, are disjoint,
\* and each begins more than 8 bytes after the end of the one before.
C26_TextRunMerging ==
    cpc = "scanned" =>
        LET t_blocks == returned.value
            n == Len(t_blocks)
            accepted == AcceptedRuns
        IN  /\ \A i \in 1..n : /\ start <= t_blocks[i][1]
                               /\ t_blocks[i][1] < t_blocks[i][2]
                               /\ t_blocks[i][2] <= end
                               /\ \E r \in accepted : r[1] = t_blocks[i][1]
                               /\ \E r \in accepted : r[2] = t_blocks[i][2]
            /\ \A i \in 1..(n - 1) : t_blocks[i][2] + 8 < t_blocks[i + 1][1]
            /\ \A r \in accepted : \E i \in 1..n : Within(r, t_blocks[i])
            /\ \A r1, r2 \in accepted :
                (/\ r1[2] < r2[1]
                 /\ ~ \E r \in accepted : r1[2] < r[1] /\ r[2] < r2[1])
                => (r1[2] + 8 >= r2[1]
                    <=> \E i \in 1..n : Within(r1, t_blocks[i]) /\ Within(r2, t_blocks[i]))

\* Two accepted runs with 8 bytes between them, returned as one text block.
C26_Witness ==
    /\ cpc = "scanned"
    /\ Len(returned.value) = 1
    /\ \E r1, r2 \in AcceptedRuns : r1[2] + 8 = r2[1]

\* C30: every maximal run of characters of [start, end) that satisfies the
\* text-run predicate lies in a text block returned, wherever it begins,
\* the run that begins at address 0 included.
C30_PositionIndependent ==
    cpc = "scanned" =>
        \A r \in CandidateRuns :
            IsText(r) => \E i \in 1..Len(returned.value) : Within(r, returned.value[i])


\* ======================================================================
\* Disassembly._create_entries and Entry.__init__, for one block
\* ======================================================================
\* The bytes of the snapshot then: NOP and LD BC,nn.
EntryBytes == {0, 1}

\* The sub-blocks that a ctl parser may give a block of [0, EntrySize): code
\* and data sub-blocks that divide it, each with no multi-line comment
\* (None) or with one, of which the end address is kept.
SubBlocks ==
    UNION {LET ks == Sorted(K \cup {0, EntrySize})
           IN  {[i \in 1..(Len(ks) - 1) |->
                    [ctl |-> c[i], start |-> ks[i], end |-> ks[i + 1], multiline_comment |-> m[i]]] :
                  c \in [1..(Len(ks) - 1) -> {"c", "b"}],
                  m \in [1..(Len(ks) - 1) -> {None} \cup (1..EntrySize)]} :
             K \in SUBSET (1..(EntrySize - 1))}

\* _create_entries is about to make the entry of a block that is not in
\* entry_map.
InitEntry ==
    /\ NoBinWriter
    /\ \E bytes \in [0..(EntrySize - 1) -> EntryBytes] :
          snapshot = [len |-> SNAPSHOT_SIZE, mem |-> bytes]
    /\ start = 0
    /\ end = EntrySize
    /\ code_map = NoCodeMap
    /\ cpc = "enter"
    /\ ctls = <<>>
    /\ disassembly = NoDisassembly
    /\ phase = 0
    /\ raised = "none"
    /\ results = <<>>
    /\ classified = <<>>
    /\ ReaderIdle
    /\ FinalIdle
    /\ CommentIdle
    /\ argument \in {[ctl |-> "c", start |-> 0, end |-> EntrySize, blocks |-> b] : b \in SubBlocks}
    /\ returned = NoCall

\* The instructions of a sub-block (lines 616-643), whose sublengths give
\* no length: one statement for a data sub-block.
SubBlockInstructions(sub_block) ==
    IF sub_block.ctl = "c" THEN disassemble(sub_block.start, sub_block.end)
    ELSE IF sub_block.ctl \in {"b", "g", "s", "t", "u", "w"}
         THEN defb_range(sub_block.start, sub_block.end)
         ELSE ignore(sub_block.start, sub_block.end)

\* _add_instructions(sub_block, instructions) for each sub-block (line 644).
AddInstructions(bs) ==
    [i \in 1..Len(bs) |->
        [ctl |-> bs[i].ctl, start |-> bs[i].start, end |-> bs[i].end,
         multiline_comment |-> bs[i].multiline_comment,
         instructions |-> SubBlockInstructions(bs[i])]]

\* The loop of lines 654-658: the sub-blocks from the i-th on that start
\* before e are absorbed by sub_block.
RECURSIVE Absorb(_, _, _, _)
Absorb(sub_block, bs, i, e) ==
    IF i <= Len(bs) /\ bs[i].start < e
    THEN Absorb([sub_block EXCEPT !.instructions = @ \o bs[i].instructions,
                                  !.end = bs[i].end],
                bs, i + 1, e)
    ELSE [sub_block |-> sub_block, i |-> i]

\* The loop of lines 648-658 from the i-th sub-block on.
RECURSIVE GroupSubBlocks(_, _, _)
GroupSubBlocks(bs, i, sub_blocks) ==
    IF i > Len(bs) THEN sub_blocks
    ELSE IF bs[i].multiline_comment # None
         THEN LET r == Absorb(bs[i], bs, i + 1, bs[i].multiline_comment)
              IN  GroupSubBlocks(bs, r.i, Append(sub_blocks, r.sub_block))
         ELSE GroupSubBlocks(bs, i + 1, Append(sub_blocks, bs[i]))

\* block.instructions[-1] goes beyond the block (lines 564-565).
LastGoesBeyond(b) ==
    LET last_instruction == b.instructions[Len(b.instructions)]
    IN  last_instruction.address + size(last_instruction) > b.end

\* The instructions of the blocks, one block after another (lines 547-551).
RECURSIVE Gather(_)
Gather(bs) == IF bs = <<>> THEN <<>> ELSE Head(bs).instructions \o Gather(Tail(bs))

\* Entry(header, title, description, ctl, blocks, ...) (lines 540-566).
EntryInit(ctl, bs) ==
    [ctl |-> ctl,
     blocks |-> bs,
     instructions |-> Gather(bs),
     address |-> Gather(bs)[1].address,
     next |-> None,
     bad_blocks |-> SelectSeq(bs, LastGoesBeyond)]

\* Lines 616-664 of _create_entries for the block.
CreateEntry ==
    /\ cpc = "enter"
    /\ returned' = EntryInit(argument.ctl,
                             GroupSubBlocks(AddInstructions(argument.blocks), 1, <<>>))
    /\ cpc' = "entered"
    /\ UNCHANGED <<bwvars, results, classified, readvars, finalvars, commentvars, argument,
                   code_map, ctls, disassembly, phase, raised>>

NextEntry == CreateEntry

SpecEntry == InitEntry /\ [][NextEntry]_vars

\* The block b is listed in the bad_blocks of the entry.
Listed(b) == \E i \in 1..Len(returned.bad_blocks) : returned.bad_blocks[i] = b

\* C27: for every block of the entry built, every instruction of the block
\* has block.start <= address < block.end, and the block is listed in the
\* entry's bad_blocks exactly when some instruction of the block has
\* address + size > block.end.
C27_BadBlocks ==
    cpc = "entered" =>
        \A n \in 1..Len(returned.blocks) :
            LET b == returned.blocks[n]
            IN  /\ \A i \in 1..Len(b.instructions) :
                      b.start <= b.instructions[i].address /\ b.instructions[i].address < b.end
                /\ Listed(b) <=> \E i \in 1..Len(b.instructions) :
                                    b.instructions[i].address + size(b.instructions[i]) > b.end


\* ----------------------------------------------------- the cache of entries
\* The entries d.entries that a build returned for the ctl map c agree with
\* it: each has the kind that c holds at its address and ends at the next
\* key of c, and no entry begins before the end of the one before it.
Coherent(d, c) ==
    /\ \A i \in 1..Len(d.entries) :
          LET e == d.entries[i]
          IN  /\ e.address \in DOMAIN c
              /\ e.ctl = c[e.address]
              /\ e.end = Min({k \in DOMAIN c : k > e.address})
    /\ \A i \in 1..(Len(d.entries) - 1) : d.entries[i].end <= d.entries[i + 1].address

\* C28: after every build of the classifier the entries agree with the ctl
\* map that they were built for, no stale entry being reused and no two
\* entries overlapping: in the loops of lines 253 and 289, which begin with
\* the build; in the loops of lines 341-384, which end with it; and at line
\* 508, where the unidentified blocks have been relabelled.
C28_CacheCoherence ==
    /\ cpc \in {"discover", "join"} => Coherent(build(disassembly, ctls), ctls)
    /\ cpc \in {"overlap", "ends", "branch", "nops"} => Coherent(disassembly, ctls)
    /\ cpc = "relabel" => Coherent(build(disassembly, Relabelled(ctls)), Relabelled(ctls))


\* ------------------------------------------------------ the pending hints
\* The hints that wait for an operation, and those that an instruction carries.
Pending == <<keep, nowarn, data>>
NoHints == <<"None", FALSE, <<>>>>
HintsOf(i) == <<i.keep, i.nowarn, i.data>>

\* The line was given an operation to prepend.
Prepends(operations) ==
    \E i \in 1..Len(operations) :
        parse_asm_sub_fix_directive(operations[i]).prepend /\ operations[i].op # NoOp

\* C29: @keep, @nowarn and, in data mode, @defb make a hint pending, and no
\* other directive and no end of an entry changes the pending hints.  An
\* instruction line that gives no operation a size leaves them pending and
\* records nothing.  Otherwise they are cleared, also when the first
\* operation sized lies outside [start, end); that operation is a prepended
\* one if the line has any, else the line's own or its replacement unless
\* that is suppressed; the instruction recorded for it, which exists when it
\* lies in [start, end), carries the hints that were pending, and every
\* other instruction that the line records carries none.
C29_PendingHints ==
    [][/\ DirectiveRead =>
            LET d == Resolve(line')
            IN  /\ keep' = IF d.kind = "keep" THEN "keep" ELSE keep
                /\ nowarn' = (d.kind = "nowarn" \/ nowarn)
                /\ data' = IF d.kind = "data" /\ data_opt THEN Append(data, d.directive) ELSE data
       /\ (line_no' = line_no + 1 /\ ~in_block') => Pending' = Pending
       /\ (InstructionRead /\ last'.kind = "instruction") =>
            LET sized == last'.sized
                added == SubSeq(instructions', Len(instructions) + 1, Len(instructions'))
            IN  /\ instructions = SubSeq(instructions', 1, Len(instructions))
                /\ sized = <<>> => Pending' = Pending /\ added = <<>>
                /\ sized # <<>> =>
                     /\ Pending' = NoHints
                     /\ Prepends(last'.operations) => sized[1].marker = ">"
                     /\ (~Prepends(last'.operations) /\ last'.emit_main)
                           => sized[1].marker \in {" ", "|"}
                     /\ (start <= sized[1].address /\ sized[1].address < end)
                           => added # <<>> /\ added[1].real_address = sized[1].address
                     /\ \A k \in 1..Len(added) :
                           HintsOf(added[k]) = IF added[k].real_address = sized[1].address
                                               THEN Pending ELSE NoHints]_vars

\* After @keep, a line with a prepended operation recorded two instructions:
\* the prepended one carries the hint and the line's own does not.
C29_Witness ==
    /\ last.kind = "instruction"
    /\ Len(last.sized) = 2
    /\ last.sized[1].marker = ">"
    /\ Len(instructions) = 2
    /\ instructions[1].marker = ">"
    /\ instructions[1].keep = "keep"
    /\ instructions[2].keep = "None"
    /\ keep = "None"

====
